---- MODULE Spec2Model ----
(***************************************************************************)
(* Model of the deltagram engine (github.com/developingjames/deltagrams):  *)
(* the unified-diff patch applier of pkg/operations/content.go, the file   *)
(* operation handlers, the dispatcher of pkg/operations/applier.go and the *)
(* envelope parser of pkg/parser/parser.go.                                *)
(*                                                                         *)
(* A Go string is a sequence of one-character strings, so that Split,      *)
(* Join, HasPrefix and the CR stripping of LinesEqual are computed and not *)
(* assumed.  Go slice positions are kept 0-based; s[i] in Go is s[i+1]     *)
(* here.                                                                   *)
(***************************************************************************)
EXTENDS Integers, Sequences, FiniteSets, TLC

VARIABLES
    \* ---- one call of ContentHandler.applyUnifiedDiff ----
    original,      \* the file content the diff is applied to (string)
    diff,          \* the body of the content Part (string)
    hunks,         \* ParseAllHunks(diff): sequence of ParsedHunk
    result,        \* the evolving line buffer
    lineMapping,   \* original line index -> current index in result
    hi,            \* 1-based index of the next hunk of the loop
    lastStart,     \* currentStart of the hunk applied last (-1: none yet)
    ppc,           \* "parse", "loop", "done", "idle"
    perr,          \* the error applyUnifiedDiff returns (Nil: none)
    out,           \* the string applyUnifiedDiff returns
    \* ---- one call of DefaultApplier.Apply ----
    files,         \* the regular files: path -> bytes
    dirs,          \* the directories
    files0,        \* files when Apply was called
    dirs0,         \* dirs when Apply was called
    parts,         \* deltagram.Parts
    pidx,          \* 1-based index of the next Part of the loop
    apc,           \* "run", "done", "idle"
    aerr,          \* the error Apply returns (Nil: none)
    applied,       \* the handler calls made so far: [index, part, handler]
    \* ---- one call of DefaultParser.Parse ----
    envelope,      \* content: the string Parse is called with
    written,       \* the Parts the envelope was written from: [headers, body]
    identifier,    \* the identifier of the first boundary
    segments,      \* parts of Parse: content split on the boundary
    si,            \* 1-based index of the next segment of the loop
    deltagram,     \* deltagram.Parts so far
    parsePc,       \* "split", "loop", "done", "idle"
    parseErr       \* the error Parse returns (Nil: none)

patchVars == <<original, diff, hunks, result, lineMapping, hi, lastStart, ppc, perr, out>>

applyVars == <<files, dirs, files0, dirs0, parts, pidx, apc, aerr, applied>>

parseVars == <<envelope, written, identifier, segments, si, deltagram, parsePc, parseErr>>

vars == <<patchVars, applyVars, parseVars>>

-----------------------------------------------------------------------------
(* Characters and strings *)

LF == "\n"
CR == "\r"
Digits == <<"0", "1", "2", "3", "4", "5", "6", "7", "8", "9">>

Nil == [kind |-> "nil"]

Min(a, b) == IF a < b THEN a ELSE b

\* strings.HasPrefix
HasPrefix(s, p) == Len(s) >= Len(p) /\ SubSeq(s, 1, Len(p)) = p

\* strings.TrimPrefix
TrimPrefix(s, p) == IF HasPrefix(s, p) THEN SubSeq(s, Len(p) + 1, Len(s)) ELSE s

\* strings.Split(s, sep) for a one-character separator: never empty, Split("") = [""]
RECURSIVE Split(_, _)
Split(s, sep) ==
    IF \A i \in 1..Len(s) : s[i] # sep
    THEN <<s>>
    ELSE LET i == CHOOSE k \in 1..Len(s) : s[k] = sep /\ \A j \in 1..(k - 1) : s[j] # sep
         IN  <<SubSeq(s, 1, i - 1)>> \o Split(SubSeq(s, i + 1, Len(s)), sep)

\* strings.Join(lines, sep): Join([]) = ""
RECURSIVE Join(_, _)
Join(lines, sep) ==
    IF Len(lines) = 0 THEN <<>>
    ELSE IF Len(lines) = 1 THEN lines[1]
    ELSE lines[1] \o <<sep>> \o Join(Tail(lines), sep)

\* strings.ReplaceAll(line, "\r", "")
StripCR(line) == SelectSeq(line, LAMBDA c : c # CR)

IsDigit(c) == \E d \in 1..10 : Digits[d] = c

DigitVal(c) == (CHOOSE d \in 1..10 : Digits[d] = c) - 1

\* the longest prefix of s made of digits (the greedy \d+ of the header regexp)
RECURSIVE TakeDigits(_)
TakeDigits(s) ==
    IF Len(s) > 0 /\ IsDigit(s[1]) THEN <<s[1]>> \o TakeDigits(Tail(s)) ELSE <<>>

\* strconv.Atoi on a non-empty digit string
RECURSIVE Atoi(_)
Atoi(ds) ==
    IF Len(ds) = 0 THEN 0
    ELSE 10 * Atoi(SubSeq(ds, 1, Len(ds) - 1)) + DigitVal(ds[Len(ds)])

\* strconv.Itoa for a natural number
RECURSIVE Itoa(_)
Itoa(n) == IF n < 10 THEN <<Digits[n + 1]>> ELSE Itoa(n \div 10) \o <<Digits[(n % 10) + 1]>>

-----------------------------------------------------------------------------
(* pkg/operations/content.go: the hunk lexer *)

\* the optional group (?:,(\d+))? of the header regexp: [num, rest]
OptCount(s) ==
    IF Len(s) >= 2 /\ s[1] = "," /\ IsDigit(s[2])
    THEN LET ds == TakeDigits(Tail(s))
         IN  [num |-> ds, rest |-> SubSeq(s, Len(ds) + 2, Len(s))]
    ELSE [num |-> <<>>, rest |-> s]

\* parseHunkHeader: ^@@ -(\d+)(?:,(\d+))? \+(\d+)(?:,(\d+))? @@
parseHunkHeader(line) ==
    LET bad == [err |-> [kind |-> "InvalidHunkHeader"], header |-> Nil]
        p1  == <<"@", "@", " ", "-">>
        r1  == TrimPrefix(line, p1)
        d1  == TakeDigits(r1)
        o1  == OptCount(SubSeq(r1, Len(d1) + 1, Len(r1)))
        p2  == <<" ", "+">>
        r2  == TrimPrefix(o1.rest, p2)
        d3  == TakeDigits(r2)
        o2  == OptCount(SubSeq(r2, Len(d3) + 1, Len(r2)))
        p3  == <<" ", "@", "@">>
    IN  IF ~HasPrefix(line, p1) \/ Len(d1) = 0 THEN bad
        ELSE IF ~HasPrefix(o1.rest, p2) \/ Len(d3) = 0 THEN bad
        ELSE IF ~HasPrefix(o2.rest, p3) THEN bad
        ELSE [err |-> Nil,
              header |-> [OldStart |-> Atoi(d1),
                          OldCount |-> IF o1.num = <<>> THEN 1 ELSE Atoi(o1.num),
                          NewStart |-> Atoi(d3),
                          NewCount |-> IF o2.num = <<>> THEN 1 ELSE Atoi(o2.num)]]

IsHunkHeaderLine(line) == HasPrefix(line, <<"@", "@">>)

\* the inner loop of ParseAllHunks without the context lines
RECURSIVE ParseOperationsNoContext(_, _, _)
ParseOperationsNoContext(diffLines, i, ops) ==
    IF i >= Len(diffLines) \/ HasPrefix(diffLines[i + 1], <<"@", "@">>)
    THEN [ops |-> ops, next |-> i]
    ELSE IF Len(diffLines[i + 1]) > 0 /\ diffLines[i + 1][1] \in {"+", "-"}
    THEN ParseOperationsNoContext(diffLines, i + 1,
             Append(ops, [Type |-> diffLines[i + 1][1], Content |-> Tail(diffLines[i + 1])]))
    ELSE ParseOperationsNoContext(diffLines, i + 1, ops)

\* the inner loop of ParseAllHunks: the operations from diffLines[i] (0-based)
\* up to the next "@@" line; [ops, next]
RECURSIVE ParseOperations(_, _, _)
ParseOperations(diffLines, i, ops) ==
    IF i >= Len(diffLines) \/ IsHunkHeaderLine(diffLines[i + 1])
    THEN [ops |-> ops, next |-> i]
    ELSE LET hunkLine == diffLines[i + 1]
         IN  IF Len(hunkLine) = 0
             THEN ParseOperations(diffLines, i + 1, ops)
             ELSE IF hunkLine[1] \in {"+", "-", " "}
             THEN ParseOperations(diffLines, i + 1,
                      Append(ops, [Type |-> hunkLine[1], Content |-> Tail(hunkLine)]))
             ELSE ParseOperations(diffLines, i + 1, ops)

\* ParseAllHunks from diffLines[i] on, acc the hunks lexed so far: [err, hunks]
RECURSIVE ParseHunksFrom(_, _, _)
ParseHunksFrom(diffLines, i, acc) ==
    IF i >= Len(diffLines) THEN [err |-> Nil, hunks |-> acc]
    ELSE IF IsHunkHeaderLine(diffLines[i + 1])
    THEN LET h == parseHunkHeader(diffLines[i + 1])
         IN  IF h.err # Nil
             THEN [err |-> h.err, hunks |-> <<>>]
             ELSE LET po == ParseOperations(diffLines, i + 1, <<>>)
                  IN  ParseHunksFrom(diffLines, po.next,
                          Append(acc, [Header |-> h.header, Operations |-> po.ops]))
    ELSE ParseHunksFrom(diffLines, i + 1, acc)

ParseAllHunks(diffLines) == ParseHunksFrom(diffLines, 0, <<>>)

-----------------------------------------------------------------------------
(* pkg/operations/content.go: the patch applier *)

searchRange == 5

\* LinesEqual: equality after removing every CR from both lines
LinesEqual(line1, line2) == StripCR(line1) = StripCR(line2)

\* validateHunkAgainstOriginal from operation k on, originalPos 0-based
RECURSIVE ValidateFrom(_, _, _, _)
ValidateFrom(originalLines, ops, k, originalPos) ==
    IF k > Len(ops) THEN Nil
    ELSE LET op == ops[k]
         IN  IF op.Type = "+" THEN ValidateFrom(originalLines, ops, k + 1, originalPos)
             ELSE IF originalPos >= Len(originalLines)
             THEN [kind |-> "TruncatedContext", op |-> op.Type]
             ELSE IF ~LinesEqual(originalLines[originalPos + 1], op.Content)
             THEN [kind |-> "ContextMismatch", op |-> op.Type, at |-> originalPos + 1,
                   expected |-> op.Content, got |-> originalLines[originalPos + 1]]
             ELSE ValidateFrom(originalLines, ops, k + 1, originalPos + 1)

validateHunkAgainstOriginal(originalLines, hunk, originalStart) ==
    ValidateFrom(originalLines, hunk.Operations, 1, originalStart)

\* a search loop that tries the position after the stated one first
RECURSIVE SearchOffsetsAfterFirst(_, _, _, _)
SearchOffsetsAfterFirst(originalLines, hunk, suggestedStart, offset) ==
    IF offset > searchRange
    THEN [pos |-> suggestedStart,
          err |-> validateHunkAgainstOriginal(originalLines, hunk, suggestedStart)]
    ELSE IF /\ suggestedStart + offset < Len(originalLines)
            /\ validateHunkAgainstOriginal(originalLines, hunk, suggestedStart + offset) = Nil
    THEN [pos |-> suggestedStart + offset, err |-> Nil]
    ELSE IF /\ suggestedStart - offset >= 0
            /\ validateHunkAgainstOriginal(originalLines, hunk, suggestedStart - offset) = Nil
    THEN [pos |-> suggestedStart - offset, err |-> Nil]
    ELSE SearchOffsetsAfterFirst(originalLines, hunk, suggestedStart, offset + 1)

\* the search loop of findBestHunkPosition, from the given offset on
RECURSIVE SearchOffsets(_, _, _, _)
SearchOffsets(originalLines, hunk, suggestedStart, offset) ==
    IF offset > searchRange
    THEN [pos |-> suggestedStart,
          err |-> validateHunkAgainstOriginal(originalLines, hunk, suggestedStart)]
    ELSE IF /\ suggestedStart - offset >= 0
            /\ validateHunkAgainstOriginal(originalLines, hunk, suggestedStart - offset) = Nil
    THEN [pos |-> suggestedStart - offset, err |-> Nil]
    ELSE IF /\ suggestedStart + offset < Len(originalLines)
            /\ validateHunkAgainstOriginal(originalLines, hunk, suggestedStart + offset) = Nil
    THEN [pos |-> suggestedStart + offset, err |-> Nil]
    ELSE SearchOffsets(originalLines, hunk, suggestedStart, offset + 1)

\* findBestHunkPosition without the search around the stated position
findExactPosition(originalLines, hunk, suggestedStart) ==
    [pos |-> suggestedStart,
     err |-> validateHunkAgainstOriginal(originalLines, hunk, suggestedStart)]

findBestHunkPosition(originalLines, hunk, suggestedStart) ==
    IF validateHunkAgainstOriginal(originalLines, hunk, suggestedStart) = Nil
    THEN [pos |-> suggestedStart, err |-> Nil]
    ELSE SearchOffsets(originalLines, hunk, suggestedStart, 1)

\* the payloads of the insertion ops, in order (the OldCount = 0 branch)
RECURSIVE InsertLines(_)
InsertLines(ops) ==
    IF Len(ops) = 0 THEN <<>>
    ELSE (IF ops[1].Type = "+" THEN <<ops[1].Content>> ELSE <<>>) \o InsertLines(Tail(ops))

\* the replacement lines without the context lines
RECURSIVE ReplacementLinesNoContext(_, _, _)
ReplacementLinesNoContext(ops, oldCount, oldLinesProcessed) ==
    IF Len(ops) = 0 THEN <<>>
    ELSE (IF ops[1].Type = "+" THEN <<ops[1].Content>> ELSE <<>>)
         \o ReplacementLinesNoContext(Tail(ops), oldCount, oldLinesProcessed)

\* the replacement lines of the OldCount > 0 branch
RECURSIVE ReplacementLines(_, _, _)
ReplacementLines(ops, oldCount, oldLinesProcessed) ==
    IF Len(ops) = 0 THEN <<>>
    ELSE LET op == ops[1]
         IN  IF op.Type = " "
             THEN (IF oldLinesProcessed < oldCount THEN <<op.Content>> ELSE <<>>)
                  \o ReplacementLines(Tail(ops), oldCount, oldLinesProcessed + 1)
             ELSE IF op.Type = "+"
             THEN <<op.Content>> \o ReplacementLines(Tail(ops), oldCount, oldLinesProcessed)
             ELSE ReplacementLines(Tail(ops), oldCount, oldLinesProcessed + 1)

\* applyHunkAtPosition with a pure insertion written over the line at currentStart
applyHunkOverwriting(res, hunk, currentStart) ==
    IF currentStart < 0 \/ currentStart > Len(res)
    THEN [err |-> [kind |-> "panic"], result |-> res, net |-> 0]
    ELSE LET replacementLines ==
                 IF hunk.Header.OldCount = 0 THEN InsertLines(hunk.Operations)
                 ELSE ReplacementLines(hunk.Operations, hunk.Header.OldCount, 0)
             endPos == Min(currentStart + (IF hunk.Header.OldCount = 0 THEN 1
                                           ELSE hunk.Header.OldCount), Len(res))
         IN  [err |-> Nil,
              result |-> SubSeq(res, 1, currentStart) \o replacementLines
                         \o SubSeq(res, endPos + 1, Len(res)),
              net |-> Len(replacementLines) - hunk.Header.OldCount]

\* applyHunkAtPosition: [err, result, net]; a slice bound outside the buffer panics
applyHunkAtPosition(res, hunk, currentStart) ==
    IF currentStart < 0 \/ currentStart > Len(res)
    THEN [err |-> [kind |-> "panic"], result |-> res, net |-> 0]
    ELSE IF hunk.Header.OldCount = 0
    THEN LET insertLines == InsertLines(hunk.Operations)
         IN  [err |-> Nil,
              result |-> SubSeq(res, 1, currentStart) \o insertLines
                         \o SubSeq(res, currentStart + 1, Len(res)),
              net |-> Len(insertLines)]
    ELSE LET replacementLines == ReplacementLines(hunk.Operations, hunk.Header.OldCount, 0)
             endPos == Min(currentStart + hunk.Header.OldCount, Len(res))
         IN  [err |-> Nil,
              result |-> SubSeq(res, 1, currentStart) \o replacementLines
                         \o SubSeq(res, endPos + 1, Len(res)),
              net |-> Len(replacementLines) - hunk.Header.OldCount]

\* updateLineMapping that leaves the mapping as it is
updateLineMappingStale(mapping, originalStart, oldCount, netChange) == mapping

\* updateLineMapping (index i of the Go slice is i + 1 here)
updateLineMapping(mapping, originalStart, oldCount, netChange) ==
    [i \in 1..Len(mapping) |->
        IF i - 1 >= originalStart + oldCount THEN mapping[i] + netChange ELSE mapping[i]]

\* a range check that lets a start past the last line through
OutOfRangeBelowOnly(originalStart, n) == originalStart < 0

\* the range check of the hunk loop: originalStart is no index of the original
OutOfRange(originalStart, n) == originalStart < 0 \/ originalStart >= n

\* one iteration of the hunk loop of applyUnifiedDiff:
\* [err, result, lineMapping, currentStart]
HunkStep(originalLines, res, mapping, hunk) ==
    LET originalStart == hunk.Header.OldStart - 1
        fail(e) == [err |-> e, result |-> res, lineMapping |-> mapping, currentStart |-> -1]
    IN  IF OutOfRange(originalStart, Len(originalLines))
        THEN fail([kind |-> "HunkOutOfRange", line |-> hunk.Header.OldStart,
                   lines |-> Len(originalLines)])
        ELSE LET best == findBestHunkPosition(originalLines, hunk, originalStart)
             IN  IF best.err # Nil THEN fail(best.err)
                 ELSE LET currentStart == mapping[best.pos + 1]
                          ap == applyHunkAtPosition(res, hunk, currentStart)
                      IN  IF ap.err # Nil THEN fail(ap.err)
                          ELSE [err |-> Nil,
                                result |-> ap.result,
                                lineMapping |-> updateLineMapping(mapping, best.pos,
                                                    hunk.Header.OldCount, ap.net),
                                currentStart |-> currentStart]

\* the hunk loop of applyUnifiedDiff from hunk k on: [err, result]
RECURSIVE ApplyHunksFrom(_, _, _, _, _)
ApplyHunksFrom(originalLines, hs, k, res, mapping) ==
    IF k > Len(hs) THEN [err |-> Nil, result |-> res]
    ELSE LET st == HunkStep(originalLines, res, mapping, hs[k])
         IN  IF st.err # Nil THEN [err |-> st.err, result |-> <<>>]
             ELSE ApplyHunksFrom(originalLines, hs, k + 1, st.result, st.lineMapping)

IdentityMapping(n) == [i \in 1..n |-> i - 1]

\* the hunk loop applied to already lexed hunks: [err, out]
ApplyHunks(orig, hs) ==
    LET originalLines == Split(orig, LF)
        r == ApplyHunksFrom(originalLines, hs, 1, originalLines,
                            IdentityMapping(Len(originalLines)))
    IN  IF r.err # Nil THEN [err |-> r.err, out |-> <<>>]
        ELSE [err |-> Nil, out |-> Join(r.result, LF)]

\* applyUnifiedDiff(original, diff): [err, out]
applyUnifiedDiff(orig, d) ==
    LET parsed == ParseAllHunks(Split(d, LF))
    IN  IF parsed.err # Nil THEN [err |-> parsed.err, out |-> <<>>]
        ELSE ApplyHunks(orig, parsed.hunks)

-----------------------------------------------------------------------------
(* pkg/operations/utils.go and the path functions of path/filepath *)

Whitespace == {" ", "\t", LF, CR}

\* strings.TrimSpace
RECURSIVE TrimLeft(_)
TrimLeft(s) == IF Len(s) > 0 /\ s[1] \in Whitespace THEN TrimLeft(Tail(s)) ELSE s

RECURSIVE TrimRight(_)
TrimRight(s) ==
    IF Len(s) > 0 /\ s[Len(s)] \in Whitespace THEN TrimRight(SubSeq(s, 1, Len(s) - 1)) ELSE s

TrimSpace(s) == TrimRight(TrimLeft(s))

\* the component loop of filepath.Clean
RECURSIVE CleanFold(_, _, _)
CleanFold(segs, acc, rooted) ==
    IF Len(segs) = 0 THEN acc
    ELSE LET seg == segs[1]
         IN  IF seg = <<>> \/ seg = <<".">>
             THEN CleanFold(Tail(segs), acc, rooted)
             ELSE IF seg = <<".", ".">>
             THEN IF Len(acc) > 0 /\ acc[Len(acc)] # <<".", ".">>
                  THEN CleanFold(Tail(segs), SubSeq(acc, 1, Len(acc) - 1), rooted)
                  ELSE IF rooted THEN CleanFold(Tail(segs), acc, rooted)
                  ELSE CleanFold(Tail(segs), Append(acc, seg), rooted)
             ELSE CleanFold(Tail(segs), Append(acc, seg), rooted)

\* filepath.Clean
Clean(path) ==
    IF Len(path) = 0 THEN <<".">>
    ELSE LET rooted == path[1] = "/"
             body   == Join(CleanFold(Split(path, "/"), <<>>, rooted), "/")
         IN  IF rooted THEN <<"/">> \o body
             ELSE IF Len(body) = 0 THEN <<".">> ELSE body

\* filepath.Join(a, b)
PathJoin(a, b) ==
    IF Len(a) = 0 /\ Len(b) = 0 THEN <<>>
    ELSE IF Len(a) = 0 THEN Clean(b)
    ELSE IF Len(b) = 0 THEN Clean(a)
    ELSE Clean(a \o <<"/">> \o b)

\* filepath.Dir
PathDir(path) ==
    LET slashes == {i \in 1..Len(path) : path[i] = "/"}
    IN  IF slashes = {} THEN <<".">>
        ELSE LET last == CHOOSE i \in slashes : \A j \in slashes : j <= i
             IN  Clean(SubSeq(path, 1, last))

\* filepath.IsAbs
IsAbs(path) == HasPrefix(path, <<"/">>)

HttpPrefix == <<"h", "t", "t", "p", ":", "/", "/">>
HttpsPrefix == <<"h", "t", "t", "p", "s", ":", "/", "/">>

\* ResolveFilePath
ResolveFilePath(baseDir, filePath) ==
    IF HasPrefix(filePath, HttpPrefix) \/ HasPrefix(filePath, HttpsPrefix)
    THEN LET parts_ == Split(filePath, "/")
         IN  PathJoin(baseDir, parts_[Len(parts_)])
    ELSE IF IsAbs(filePath)
    THEN PathJoin(baseDir, TrimPrefix(filePath, <<"/">>))
    ELSE PathJoin(baseDir, filePath)

-----------------------------------------------------------------------------
(* The filesystem behind the FileSystem interface (pkg/operations/filesystem.go):
   files maps the path of every regular file to its bytes, dirs is the set of
   directories.  Every operation returns [err, files, dirs]. *)

IoError(what) == [kind |-> "Io", what |-> what]
NotExist == [kind |-> "NotExist"]

FsResult(e, f, d) == [err |-> e, files |-> f, dirs |-> d]

\* the directory and all its ancestors
RECURSIVE Ancestors(_)
Ancestors(dir) ==
    IF dir = <<"/">> \/ dir = <<".">> THEN {dir} ELSE {dir} \cup Ancestors(PathDir(dir))

\* os.Stat: the path names a file or a directory
Exists(f, d, path) == path \in DOMAIN f \/ path \in d

\* os.MkdirAll
MkdirAll(f, d, path) ==
    IF \E a \in Ancestors(path) : a \in DOMAIN f
    THEN FsResult(IoError("mkdir"), f, d)
    ELSE FsResult(Nil, f, d \cup Ancestors(path))

\* os.WriteFile: create or truncate; the parent directory must exist
WriteFile(f, d, path, data) ==
    IF path \in d \/ PathDir(path) \notin d
    THEN FsResult(IoError("write"), f, d)
    ELSE FsResult(Nil, (path :> data) @@ f, d)

\* os.Remove: a file, or an empty directory
Remove(f, d, path) ==
    IF path \in DOMAIN f
    THEN FsResult(Nil, [q \in DOMAIN f \ {path} |-> f[q]], d)
    ELSE IF path \in d
    THEN IF \E q \in (DOMAIN f \cup d) \ {path} : PathDir(q) = path
         THEN FsResult(IoError("remove"), f, d)
         ELSE FsResult(Nil, f, d \ {path})
    ELSE FsResult(NotExist, f, d)

\* os.Rename of a regular file
Rename(f, d, oldpath, newpath) ==
    IF oldpath \notin DOMAIN f THEN FsResult(NotExist, f, d)
    ELSE IF newpath \in d \/ PathDir(newpath) \notin d
    THEN FsResult(IoError("rename"), f, d)
    ELSE FsResult(Nil, (newpath :> f[oldpath]) @@ [q \in DOMAIN f \ {oldpath} |-> f[q]], d)

\* CopyHandler.copyFile: Open(src), Create(dst) truncates, io.Copy then reads
\* src, which is the truncated file when dst is src
copyFile(f, d, src, dst) ==
    IF src \notin DOMAIN f THEN FsResult(NotExist, f, d)
    ELSE IF dst \in d \/ PathDir(dst) \notin d
    THEN FsResult(IoError("create"), f, d)
    ELSE LET truncated == (dst :> <<>>) @@ f
         IN  FsResult(Nil, (dst :> truncated[src]) @@ truncated, d)

-----------------------------------------------------------------------------
(* The operation handlers: Apply of each handler returns [err, files, dirs] *)

VerbCreate == <<"c", "r", "e", "a", "t", "e">>
VerbDelete == <<"d", "e", "l", "e", "t", "e">>
VerbCopy == <<"c", "o", "p", "y">>
VerbMove == <<"m", "o", "v", "e">>
VerbContent == <<"c", "o", "n", "t", "e", "n", "t">>

MarkerPlus == <<"+", "+", "+">>
MarkerMinus == <<"-", "-", "-">>

HandlerError(what, cause) == [kind |-> "HandlerError", what |-> what, cause |-> cause]

\* the line loop of CreateHandler.Apply: [content, contentStarted]
RECURSIVE CreateScan(_, _, _, _)
CreateScan(lines, k, content, contentStarted) ==
    IF k > Len(lines) THEN [content |-> content, contentStarted |-> contentStarted]
    ELSE IF HasPrefix(lines[k], MarkerPlus)
    THEN CreateScan(lines, k + 1, content, TRUE)
    ELSE IF contentStarted
    THEN CreateScan(lines, k + 1,
             (IF content # <<>> THEN content \o <<LF>> ELSE content) \o lines[k], TRUE)
    ELSE CreateScan(lines, k + 1, content, contentStarted)

\* the bytes CreateHandler.Apply writes for a Part body
CreateContent(body) ==
    LET scan == CreateScan(Split(body, LF), 1, <<>>, FALSE)
    IN  IF scan.contentStarted THEN scan.content ELSE body

\* if err != nil { return fmt.Errorf(what, err) } after a filesystem call
Wrap(res, what) ==
    IF res.err # Nil THEN FsResult(HandlerError(what, res.err), res.files, res.dirs) ELSE res

\* CreateHandler.Apply from fs.WriteFile on; mk is the outcome of fs.MkdirAll
CreateWrite(mk, filePath, data) ==
    IF mk.err # Nil THEN mk
    ELSE Wrap(WriteFile(mk.files, mk.dirs, filePath, data), "failed to write file")

\* CreateHandler.Apply once filePath is resolved
CreateAt(f, d, filePath, part) ==
    CreateWrite(Wrap(MkdirAll(f, d, PathDir(filePath)), "failed to create directory"),
                filePath, CreateContent(part.Content))

\* CreateHandler.Apply
CreateApply(f, d, baseDir, part) ==
    CreateAt(f, d, ResolveFilePath(baseDir, part.ContentLocation), part)

\* a delete that reports a missing file as a failure
DeleteResultStrict(rm, f, d) == Wrap(rm, "failed to delete file")

\* DeleteHandler.Apply after fs.Remove returned rm: a file that does not exist
\* is a warning
DeleteResult(rm, f, d) ==
    IF rm.err = NotExist THEN FsResult(Nil, f, d) ELSE Wrap(rm, "failed to delete file")

\* DeleteHandler.Apply
DeleteApply(f, d, baseDir, part) ==
    DeleteResult(Remove(f, d, ResolveFilePath(baseDir, part.ContentLocation)), f, d)

\* the line loop of MoveHandler.Apply and CopyHandler.Apply: [sourcePath, destPath]
RECURSIVE ScanPaths(_, _, _, _)
ScanPaths(lines, k, sourcePath, destPath) ==
    IF k > Len(lines) THEN [sourcePath |-> sourcePath, destPath |-> destPath]
    ELSE LET line == TrimSpace(lines[k])
         IN  IF HasPrefix(line, MarkerMinus)
             THEN ScanPaths(lines, k + 1, TrimSpace(TrimPrefix(line, MarkerMinus)), destPath)
             ELSE IF HasPrefix(line, MarkerPlus)
             THEN ScanPaths(lines, k + 1, sourcePath, TrimSpace(TrimPrefix(line, MarkerPlus)))
             ELSE ScanPaths(lines, k + 1, sourcePath, destPath)

BodyPaths(body) == ScanPaths(Split(body, LF), 1, <<>>, <<>>)

MissingPath(verb) == [kind |-> "MissingPath", verb |-> verb]

\* a move that copies: the source stays in place
MoveRenameKeepsSource(mk, sourceFullPath, destFullPath) ==
    IF mk.err # Nil THEN mk
    ELSE Wrap(copyFile(mk.files, mk.dirs, sourceFullPath, destFullPath), "failed to move file")

\* MoveHandler.Apply from fs.Rename on; mk is the outcome of fs.MkdirAll
MoveRename(mk, sourceFullPath, destFullPath) ==
    IF mk.err # Nil THEN mk
    ELSE Wrap(Rename(mk.files, mk.dirs, sourceFullPath, destFullPath), "failed to move file")

\* MoveHandler.Apply once both paths are resolved
MoveBetween(f, d, sourceFullPath, destFullPath) ==
    MoveRename(Wrap(MkdirAll(f, d, PathDir(destFullPath)),
                    "failed to create destination directory"),
               sourceFullPath, destFullPath)

\* MoveHandler.Apply once the body is scanned
MovePaths(f, d, baseDir, paths) ==
    IF paths.sourcePath = <<>> \/ paths.destPath = <<>>
    THEN FsResult(MissingPath(VerbMove), f, d)
    ELSE MoveBetween(f, d, ResolveFilePath(baseDir, paths.sourcePath),
                     ResolveFilePath(baseDir, paths.destPath))

\* MoveHandler.Apply
MoveApply(f, d, baseDir, part) == MovePaths(f, d, baseDir, BodyPaths(part.Content))

\* CopyHandler.Apply from copyFile on; mk is the outcome of fs.MkdirAll
CopyCopy(mk, sourceFullPath, destFullPath) ==
    IF mk.err # Nil THEN mk
    ELSE Wrap(copyFile(mk.files, mk.dirs, sourceFullPath, destFullPath), "failed to copy file")

\* CopyHandler.Apply once both paths are resolved
CopyBetween(f, d, sourceFullPath, destFullPath) ==
    CopyCopy(Wrap(MkdirAll(f, d, PathDir(destFullPath)),
                  "failed to create destination directory"),
             sourceFullPath, destFullPath)

\* CopyHandler.Apply once the body is scanned
CopyPaths(f, d, baseDir, paths) ==
    IF paths.sourcePath = <<>> \/ paths.destPath = <<>>
    THEN FsResult(MissingPath(VerbCopy), f, d)
    ELSE CopyBetween(f, d, ResolveFilePath(baseDir, paths.sourcePath),
                     ResolveFilePath(baseDir, paths.destPath))

\* CopyHandler.Apply
CopyApply(f, d, baseDir, part) == CopyPaths(f, d, baseDir, BodyPaths(part.Content))

FileMissing(loc) == [kind |-> "FileMissing", loc |-> loc, use |-> VerbCreate]

\* a content handler that writes what applyUnifiedDiff returned also when it
\* returned an error
ContentWriteAlways(f, d, filePath, patched) ==
    IF patched.err # Nil
    THEN FsResult(HandlerError("failed to apply diff", patched.err),
                  WriteFile(f, d, filePath, patched.out).files, d)
    ELSE Wrap(WriteFile(f, d, filePath, patched.out), "failed to write modified file")

\* ContentHandler.Apply after applyUnifiedDiff returned patched
ContentWrite(f, d, filePath, patched) ==
    IF patched.err # Nil
    THEN FsResult(HandlerError("failed to apply diff", patched.err), f, d)
    ELSE Wrap(WriteFile(f, d, filePath, patched.out), "failed to write modified file")

\* a content handler that writes the body to a target that does not exist
ContentAtOrCreate(f, d, filePath, part) ==
    IF filePath \notin DOMAIN f
    THEN Wrap(WriteFile(f, d, filePath, part.Content), "failed to write modified file")
    ELSE ContentWrite(f, d, filePath, applyUnifiedDiff(f[filePath], part.Content))

\* ContentHandler.Apply once filePath is resolved
ContentAt(f, d, filePath, part) ==
    IF ~Exists(f, d, filePath)
    THEN FsResult(FileMissing(part.ContentLocation), f, d)
    ELSE IF filePath \notin DOMAIN f
    THEN FsResult(HandlerError("failed to read existing file", IoError("read")), f, d)
    ELSE ContentWrite(f, d, filePath, applyUnifiedDiff(f[filePath], part.Content))

\* ContentHandler.Apply
ContentApply(f, d, baseDir, part) ==
    ContentAt(f, d, ResolveFilePath(baseDir, part.ContentLocation), part)

-----------------------------------------------------------------------------
(* pkg/operations/applier.go: the dispatcher *)

MessageLocations == {<<"d", "e", "l", "t", "a", "g", "r", "a", "m", ":", "/", "/", "m", "e", "s", "s", "a", "g", "e">>, <<"m", "i", "m", "e", "o", "g", "r", "a", "m", ":", "/", "/", "m", "e", "s", "s", "a", "g", "e">>}

IsMessage(part) == part.ContentLocation \in MessageLocations

\* the handlers in the order NewApplier registers them
Handlers == <<VerbCreate, VerbDelete, VerbCopy, VerbMove, VerbContent>>

\* CanHandle of the handler registered for verb
CanHandle(verb, operation) ==
    IF verb = VerbCreate THEN operation = VerbCreate \/ operation = <<>>
    ELSE operation = verb

\* a selection that falls back to the handler registered last
SelectHandlerLast(operation) ==
    IF \E k \in 1..Len(Handlers) : CanHandle(Handlers[k], operation)
    THEN Handlers[CHOOSE k \in 1..Len(Handlers) :
                      /\ CanHandle(Handlers[k], operation)
                      /\ \A j \in 1..(k - 1) : ~CanHandle(Handlers[j], operation)]
    ELSE Handlers[Len(Handlers)]

\* the handler Apply selects: the first that can handle, or create
SelectHandler(operation) ==
    IF \E k \in 1..Len(Handlers) : CanHandle(Handlers[k], operation)
    THEN Handlers[CHOOSE k \in 1..Len(Handlers) :
                      /\ CanHandle(Handlers[k], operation)
                      /\ \A j \in 1..(k - 1) : ~CanHandle(Handlers[j], operation)]
    ELSE VerbCreate

\* handler.Apply(a.fs, baseDir, part) of the handler registered for verb
HandlerApply(verb, f, d, baseDir, part) ==
    IF verb = VerbCreate THEN CreateApply(f, d, baseDir, part)
    ELSE IF verb = VerbDelete THEN DeleteApply(f, d, baseDir, part)
    ELSE IF verb = VerbCopy THEN CopyApply(f, d, baseDir, part)
    ELSE IF verb = VerbMove THEN MoveApply(f, d, baseDir, part)
    ELSE ContentApply(f, d, baseDir, part)

\* the error Apply returns for a failed Part
ApplyError(part, cause) ==
    [kind |-> "ApplyError", op |-> part.DeltaOperation, loc |-> part.ContentLocation,
     cause |-> cause]

\* DefaultApplier.Apply as a function of the filesystem and the Parts:
\* ApplyFrom runs the loop from Part k, ApplyAfter goes on after handler result r
RECURSIVE ApplyFrom(_, _, _, _, _)
RECURSIVE ApplyAfter(_, _, _, _)
ApplyFrom(f, d, baseDir, ps, k) ==
    IF k > Len(ps) THEN FsResult(Nil, f, d)
    ELSE IF IsMessage(ps[k]) THEN ApplyFrom(f, d, baseDir, ps, k + 1)
    ELSE ApplyAfter(HandlerApply(SelectHandler(ps[k].DeltaOperation), f, d, baseDir, ps[k]),
                    baseDir, ps, k)

ApplyAfter(r, baseDir, ps, k) ==
    IF r.err # Nil THEN FsResult(ApplyError(ps[k], r.err), r.files, r.dirs)
    ELSE ApplyFrom(r.files, r.dirs, baseDir, ps, k + 1)

ApplyAll(f, d, baseDir, ps) == ApplyFrom(f, d, baseDir, ps, 1)

-----------------------------------------------------------------------------
(* pkg/parser/parser.go: the envelope parser *)

\* strings.HasSuffix
HasSuffix(s, p) == Len(s) >= Len(p) /\ SubSeq(s, Len(s) - Len(p) + 1, Len(s)) = p

\* strings.TrimSuffix
TrimSuffix(s, p) == IF HasSuffix(s, p) THEN SubSeq(s, 1, Len(s) - Len(p)) ELSE s

\* s has p at position i (1-based)
HasPrefixAt(s, i, p) == i + Len(p) - 1 <= Len(s) /\ SubSeq(s, i, i + Len(p) - 1) = p

\* strings.Index(s, sep) + 1: the first position of sep in s, 0 when there is none
Index(s, sep) ==
    IF \E i \in 1..Len(s) : HasPrefixAt(s, i, sep)
    THEN CHOOSE i \in 1..Len(s) :
             /\ HasPrefixAt(s, i, sep)
             /\ \A j \in 1..(i - 1) : ~HasPrefixAt(s, j, sep)
    ELSE 0

\* strings.Split(s, sep) for a separator of any length; i is Index(s, sep)
RECURSIVE SplitOnAt(_, _, _)
SplitOnAt(s, sep, i) ==
    IF i = 0 THEN <<s>>
    ELSE <<SubSeq(s, 1, i - 1)>>
         \o SplitOnAt(SubSeq(s, i + Len(sep), Len(s)), sep,
                      Index(SubSeq(s, i + Len(sep), Len(s)), sep))

SplitOn(s, sep) == SplitOnAt(s, sep, Index(s, sep))

\* strings.ReplaceAll(s, old, new) for a non-empty old and a one-character new
ReplaceAll(s, old, new) == Join(SplitOn(s, old), new)

\* parser.go 20-21: CRLF and lone CR become LF
NormalizeLineEndings(s) == ReplaceAll(ReplaceAll(s, <<CR, LF>>, LF), <<CR>>, LF)

\* the class [a-zA-Z0-9_-] of the boundary patterns
IdentChars ==
    {"a", "b", "c", "d", "e", "f", "g", "h", "i", "j", "k", "l", "m", "n",
     "o", "p", "q", "r", "s", "t", "u", "v", "w", "x", "y", "z", "A", "B",
     "C", "D", "E", "F", "G", "H", "I", "J", "K", "L", "M", "N", "O", "P",
     "Q", "R", "S", "T", "U", "V", "W", "X", "Y", "Z", "0", "1", "2", "3",
     "4", "5", "6", "7", "8", "9", "_", "-"}

BoundaryOpen == <<"-", "-", "=", "=", "=", "=", "D", "E", "L", "T", "A", "G", "R", "A", "M", "_">>
BoundaryClose == <<"=", "=", "=", "=">>

\* the position after the longest run of identifier characters from position i
RunEnd(s, i) ==
    CHOOSE k \in i..(Len(s) + 1) :
        /\ \A j \in i..(k - 1) : s[j] \in IdentChars
        /\ k = Len(s) + 1 \/ s[k] \notin IdentChars

\* boundaryRegex matches at position i: the opening, one or more identifier
\* characters (none of them is "="), the closing
BoundaryAt(s, i) ==
    /\ HasPrefixAt(s, i, BoundaryOpen)
    /\ RunEnd(s, i + Len(BoundaryOpen)) > i + Len(BoundaryOpen)
    /\ HasPrefixAt(s, RunEnd(s, i + Len(BoundaryOpen)), BoundaryClose)

\* boundaryRegex.FindStringSubmatch(content): [found, identifier] of the
\* leftmost match
FindBoundaryAt(s, i) ==
    [found |-> TRUE,
     identifier |-> SubSeq(s, i + Len(BoundaryOpen), RunEnd(s, i + Len(BoundaryOpen)) - 1)]

FindBoundary(s) ==
    IF \E i \in 1..Len(s) : BoundaryAt(s, i)
    THEN FindBoundaryAt(s, CHOOSE i \in 1..Len(s) :
                               /\ BoundaryAt(s, i)
                               /\ \A j \in 1..(i - 1) : ~BoundaryAt(s, j))
    ELSE [found |-> FALSE, identifier |-> <<>>]

\* ^[a-zA-Z0-9_-]{8,}$
MinIdentifier == 8

\* an identifier rule without the minimum length
ValidIdentifierAnyLength(id) == \A k \in 1..Len(id) : id[k] \in IdentChars

ValidIdentifier(id) ==
    /\ Len(id) >= MinIdentifier
    /\ \A k \in 1..Len(id) : id[k] \in IdentChars

\* fmt.Sprintf(`--====DELTAGRAM_%s====`, identifier)
BoundaryPattern(id) == BoundaryOpen \o id \o BoundaryClose

\* parser.go 46-48: an empty first part is removed
DropEmptyFirst(ps) == IF TrimSpace(ps[1]) = <<>> THEN Tail(ps) ELSE ps

HeaderLocation == <<"C", "o", "n", "t", "e", "n", "t", "-", "L", "o", "c", "a", "t", "i", "o", "n", ":">>
HeaderType == <<"C", "o", "n", "t", "e", "n", "t", "-", "T", "y", "p", "e", ":">>
HeaderOperation == <<"D", "e", "l", "t", "a", "-", "O", "p", "e", "r", "a", "t", "i", "o", "n", ":">>
MessageLocation == <<"d", "e", "l", "t", "a", "g", "r", "a", "m", ":", "/", "/", "m", "e", "s", "s", "a", "g", "e">>
FinalMarker == <<"-", "-">>

\* the header loop of parsePart; k is the 1-based line, contentStartIndex the
\* Go index of the first content line (0 when no blank line ends the headers)
RECURSIVE ScanHeaders(_, _, _, _, _)
ScanHeaders(lines, k, contentLocation, contentType, deltaOperation) ==
    IF k > Len(lines) \/ TrimSpace(lines[k]) = <<>>
    THEN [contentLocation |-> contentLocation, contentType |-> contentType,
          deltaOperation |-> deltaOperation,
          contentStartIndex |-> IF k > Len(lines) THEN 0 ELSE k]
    ELSE IF HasPrefix(TrimSpace(lines[k]), HeaderLocation)
    THEN ScanHeaders(lines, k + 1,
                     TrimSpace(TrimPrefix(TrimSpace(lines[k]), HeaderLocation)),
                     contentType, deltaOperation)
    ELSE IF HasPrefix(TrimSpace(lines[k]), HeaderType)
    THEN ScanHeaders(lines, k + 1, contentLocation,
                     TrimSpace(TrimPrefix(TrimSpace(lines[k]), HeaderType)),
                     deltaOperation)
    ELSE IF HasPrefix(TrimSpace(lines[k]), HeaderOperation)
    THEN ScanHeaders(lines, k + 1, contentLocation, contentType,
                     TrimSpace(TrimPrefix(TrimSpace(lines[k]), HeaderOperation)))
    ELSE ScanHeaders(lines, k + 1, contentLocation, contentType, deltaOperation)

MissingContentLocation == [kind |-> "MissingContentLocation"]
MissingContentType == [kind |-> "MissingContentType"]

\* parsePart from the header checks on: [err, part]
PartFrom(lines, h) ==
    IF h.contentLocation = <<>> THEN [err |-> MissingContentLocation, part |-> <<>>]
    ELSE IF h.contentType = <<>> THEN [err |-> MissingContentType, part |-> <<>>]
    ELSE [err |-> Nil,
          part |-> [ContentLocation |-> h.contentLocation,
                    ContentType |-> h.contentType,
                    DeltaOperation |->
                        IF h.contentLocation # MessageLocation /\ h.deltaOperation = <<>>
                        THEN <<"c", "r", "e", "a", "t", "e">>
                        ELSE h.deltaOperation,
                    Content |->
                        IF h.contentStartIndex < Len(lines)
                        THEN Join(SubSeq(lines, h.contentStartIndex + 1, Len(lines)), LF)
                        ELSE <<>>]]

ParseLines(lines) == PartFrom(lines, ScanHeaders(lines, 1, <<>>, <<>>, <<>>))

\* DefaultParser.parsePart
parsePart(partContent) == ParseLines(Split(TrimSpace(partContent), LF))

\* parser.go 57-63: the segment is the final boundary with no content
IsFinalSegment(part) ==
    /\ HasSuffix(TrimSpace(part), FinalMarker)
    /\ TrimSpace(TrimSuffix(TrimSpace(part), FinalMarker)) = <<>>

\* parser.go 57-59: a segment that ends with "--" loses it
StripFinalMarker(part) ==
    IF HasSuffix(TrimSpace(part), FinalMarker)
    THEN TrimSuffix(TrimSpace(part), FinalMarker)
    ELSE part

NoBoundary == [kind |-> "NoBoundary"]
InvalidIdentifier(id) == [kind |-> "InvalidIdentifier", identifier |-> id]
NoParts == [kind |-> "NoParts"]
PartError(i, cause) == [kind |-> "PartError", index |-> i, cause |-> cause]

-----------------------------------------------------------------------------
(* Inputs of the patch applier *)

MaxLines == 3      \* longest short original buffer, in lines
MaxOps == 2        \* most operations of a hunk applied alone
MaxPairOps == 1    \* most operations of a hunk of a two-hunk diff
MaxCount == 2      \* largest old_count of a generated hunk
LongLines == 8     \* length of the long buffers of the relocation cases

LineA == <<"a">>
LineB == <<"b">>
LineC == <<"c">>
LineACR == <<"a", CR>>
LineBCR == <<"b", CR>>

RECURSIVE SeqsUpTo(_, _)
SeqsUpTo(S, n) ==
    IF n = 0 THEN {<<>>}
    ELSE LET shorter == SeqsUpTo(S, n - 1)
         IN  shorter \cup {Append(q, x) : q \in {r \in shorter : Len(r) = n - 1}, x \in S}

\* the text of a hunk as a diff author writes it
FormatHeader(hd) ==
    <<"@", "@", " ", "-">> \o Itoa(hd.OldStart) \o <<",">> \o Itoa(hd.OldCount)
    \o <<" ", "+">> \o Itoa(hd.NewStart) \o <<",">> \o Itoa(hd.NewCount) \o <<" ", "@", "@">>

FormatHunk(h) ==
    <<FormatHeader(h.Header)>> \o [k \in 1..Len(h.Operations) |->
        <<h.Operations[k].Type>> \o h.Operations[k].Content]

RECURSIVE FormatDiffLines(_)
FormatDiffLines(hs) ==
    IF Len(hs) = 0 THEN <<>> ELSE FormatHunk(hs[1]) \o FormatDiffLines(Tail(hs))

FormatDiff(hs) == Join(FormatDiffLines(hs), LF)

NewSideCount(ops) == Len(SelectSeq(ops, LAMBDA o : o.Type # "-"))
OldSideCount(ops) == Len(SelectSeq(ops, LAMBDA o : o.Type # "+"))

MkHunk(oldStart, oldCount, ops) ==
    [Header |-> [OldStart |-> oldStart, OldCount |-> oldCount,
                 NewStart |-> oldStart, NewCount |-> NewSideCount(ops)],
     Operations |-> ops]

OpKinds ==
    {[Type |-> " ", Content |-> LineA], [Type |-> " ", Content |-> LineB],
     [Type |-> "-", Content |-> LineA], [Type |-> "-", Content |-> LineB],
     [Type |-> "+", Content |-> LineC]}

ShortBuffers == SeqsUpTo({LineA, LineB}, MaxLines) \ {<<>>}

FullBuffers == {buf \in ShortBuffers : Len(buf) = MaxLines}

\* the lines of an empty file
EmptyBuffer == << <<>> >>

\* buffers of a file with CRLF line ends (split on LF, the CR stays)
CRBuffers == {<<LineACR>>, <<LineACR, LineBCR>>, <<LineBCR, LineACR>>,
              <<LineACR, LineACR>>, <<LineACR, LineB>>}

\* LongLines lines "b" but for one line "a"
LongBuffers == {[i \in 1..LongLines |-> IF i = k THEN LineA ELSE LineB] : k \in 1..LongLines}

ShortHunks ==
    {MkHunk(s, c, ops) : s \in 0..(MaxLines + 1), c \in 0..MaxCount,
                         ops \in SeqsUpTo(OpKinds, MaxOps)}

AppliesAlone(buf, h) == ApplyHunks(Join(buf, LF), <<h>>).err = Nil

\* the hunks of a two-hunk diff: each applies to the buffer when alone
PairHunksFor(buf) ==
    {h \in {MkHunk(s, c, ops) : s \in 1..MaxLines, c \in 0..MaxCount,
                                ops \in SeqsUpTo(OpKinds, MaxPairOps)} :
        AppliesAlone(buf, h)}

\* hunks about the line "a" of a long buffer, stated anywhere
LongHunks ==
    {MkHunk(s, 1, ops) : s \in 0..(LongLines + 1),
                         ops \in {<<[Type |-> " ", Content |-> LineA]>>,
                                  <<[Type |-> "-", Content |-> LineA],
                                    [Type |-> "+", Content |-> LineC]>>}}

\* the context-only hunks a diff of a buffer against itself can hold
IdentityHunks(buf) ==
    UNION {{MkHunk(s, n, [k \in 1..n |-> [Type |-> " ", Content |-> buf[s + k - 1]]]) :
              n \in 1..(Len(buf) - s + 1)} : s \in 1..Len(buf)}

\* a diff whose hunk header does not match the header pattern
BadHeaderDiff == <<"@", "@", " ", "-", "1", " ", "@", "@", LF, "+", "c">>

-----------------------------------------------------------------------------
(* One call of applyUnifiedDiff, one hunk of the loop per step *)

\* no Parse call is in progress
ParseIdle ==
    /\ envelope = <<>> /\ written = <<>> /\ identifier = <<>> /\ segments = <<>>
    /\ si = 0 /\ deltagram = <<>> /\ parsePc = "idle" /\ parseErr = Nil

\* no Apply call is in progress
ApplyIdle ==
    /\ files = <<>> /\ dirs = {} /\ files0 = <<>> /\ dirs0 = {}
    /\ parts = <<>> /\ pidx = 0 /\ apc = "idle" /\ aerr = Nil /\ applied = <<>>

PatchCase(buf, hs) == original = Join(buf, LF) /\ diff = FormatDiff(hs)

InitPatch ==
    /\ \/ \E buf \in ShortBuffers : PatchCase(buf, <<>>)
       \/ \E buf \in ShortBuffers \cup CRBuffers \cup {EmptyBuffer} :
             \E h \in ShortHunks : PatchCase(buf, <<h>>)
       \/ \E buf \in FullBuffers : \E h1, h2 \in PairHunksFor(buf) : PatchCase(buf, <<h1, h2>>)
       \/ \E buf \in LongBuffers : \E h \in LongHunks : PatchCase(buf, <<h>>)
       \/ \E buf \in CRBuffers \cup {EmptyBuffer} :
             \E h \in IdentityHunks(buf) : PatchCase(buf, <<h>>)
       \/ original = LineA /\ diff = BadHeaderDiff
    /\ hunks = <<>>
    /\ result = <<>>
    /\ lineMapping = <<>>
    /\ hi = 0
    /\ lastStart = -1
    /\ ppc = "parse"
    /\ perr = Nil
    /\ out = <<>>
    /\ ApplyIdle
    /\ ParseIdle

\* content.go 57-76: split, lex the hunks, copy the buffer, identity mapping
ParseOk ==
    /\ ppc = "parse"
    /\ LET parsed == ParseAllHunks(Split(diff, LF))
           originalLines == Split(original, LF)
       IN  /\ parsed.err = Nil
           /\ hunks' = parsed.hunks
           /\ result' = originalLines
           /\ lineMapping' = IdentityMapping(Len(originalLines))
    /\ hi' = 1
    /\ ppc' = "loop"
    /\ UNCHANGED <<original, diff, lastStart, perr, out>>
    /\ UNCHANGED <<applyVars, parseVars>>

\* content.go 61-64: a malformed hunk header
ParseFail ==
    /\ ppc = "parse"
    /\ LET parsed == ParseAllHunks(Split(diff, LF))
       IN  /\ parsed.err # Nil
           /\ perr' = parsed.err
    /\ ppc' = "done"
    /\ UNCHANGED <<original, diff, hunks, result, lineMapping, hi, lastStart, out>>
    /\ UNCHANGED <<applyVars, parseVars>>

\* content.go 78-107: one hunk applied
HunkApply ==
    /\ ppc = "loop"
    /\ hi <= Len(hunks)
    /\ LET st == HunkStep(Split(original, LF), result, lineMapping, hunks[hi])
       IN  /\ st.err = Nil
           /\ result' = st.result
           /\ lineMapping' = st.lineMapping
           /\ lastStart' = st.currentStart
    /\ hi' = hi + 1
    /\ UNCHANGED <<original, diff, hunks, ppc, perr, out>>
    /\ UNCHANGED <<applyVars, parseVars>>

\* content.go 81-83, 87-89, 99-101: the hunk fails and the call returns "", err
HunkFail ==
    /\ ppc = "loop"
    /\ hi <= Len(hunks)
    /\ LET st == HunkStep(Split(original, LF), result, lineMapping, hunks[hi])
       IN  /\ st.err # Nil
           /\ perr' = st.err
    /\ ppc' = "done"
    /\ UNCHANGED <<original, diff, hunks, result, lineMapping, hi, lastStart, out>>
    /\ UNCHANGED <<applyVars, parseVars>>

\* content.go 109: join the buffer
PatchReturn ==
    /\ ppc = "loop"
    /\ hi > Len(hunks)
    /\ out' = Join(result, LF)
    /\ ppc' = "done"
    /\ UNCHANGED <<original, diff, hunks, result, lineMapping, hi, lastStart, perr>>
    /\ UNCHANGED <<applyVars, parseVars>>

NextPatch == ParseOk \/ ParseFail \/ HunkApply \/ HunkFail \/ PatchReturn

SpecPatch == InitPatch /\ [][NextPatch]_vars

TypeOKPatch == ppc \in {"parse", "loop", "done"}

-----------------------------------------------------------------------------
(* Inputs of the dispatcher *)

MaxParts == 3      \* most Parts of a deltagram

BaseDir == <<"/", "w">>
PathX == <<"x">>
PathY == <<"d", "/", "y">>
FullX == <<"/", "w", "/", "x">>
FullY == <<"/", "w", "/", "d", "/", "y">>

TypeText == <<"t">>

MkPart(loc, op, body) ==
    [ContentLocation |-> loc, ContentType |-> TypeText, DeltaOperation |-> op, Content |-> body]

PartMessage == MkPart(<<"d", "e", "l", "t", "a", "g", "r", "a", "m", ":", "/", "/", "m", "e", "s", "s", "a", "g", "e">>, <<>>, <<"m">>)
PartCreateX == MkPart(PathX, VerbCreate, <<"+", "+", "+", " ", "x", "\n", "a", "\n", "b">>)
PartCreateY == MkPart(PathY, VerbCreate, <<"b">>)
PartDeleteX == MkPart(PathX, VerbDelete, <<"-", "-", "-", " ", "x">>)
PartMoveXY == MkPart(PathY, VerbMove, <<"-", "-", "-", " ", "x", "\n", "+", "+", "+", " ", "d", "/", "y">>)
PartCopyXY == MkPart(PathY, VerbCopy, <<"-", "-", "-", " ", "x", "\n", "+", "+", "+", " ", "d", "/", "y">>)
PartContentX1 == MkPart(PathX, VerbContent, <<"@", "@", " ", "-", "1", ",", "1", " ", "+", "1", ",", "2", " ", "@", "@", "\n", " ", "a", "\n", "+", "c">>)
PartContentX2 == MkPart(PathX, VerbContent, <<"@", "@", " ", "-", "2", ",", "1", " ", "+", "2", ",", "1", " ", "@", "@", "\n", "-", "b", "\n", "+", "c">>)

\* content Parts whose hunk states a start outside the file: line 3 of a file
\* of at most 2 lines (its context is line 2 of "a\nb"), and line 0
PartContentX3 == MkPart(PathX, VerbContent, <<"@", "@", " ", "-", "3", ",", "1", " ", "+", "3", ",", "2", " ", "@", "@", "\n", " ", "b", "\n", "+", "c">>)
PartContentX0 == MkPart(PathX, VerbContent, <<"@", "@", " ", "-", "0", ",", "0", " ", "+", "1", ",", "1", " ", "@", "@", "\n", "+", "c">>)

\* create Parts whose body is more than a marker line and plain lines: a
\* blank line right after the marker and a later line that starts with "+++";
\* a "+++" line that is not the first line
PartCreateXBlank == MkPart(PathX, VerbCreate, <<"+", "+", "+", " ", "x", "\n", "\n", "a", "\n", "+", "+", "+", " ", "b">>)
PartCreateXLate == MkPart(PathX, VerbCreate, <<"a", "\n", "+", "+", "+", " ", "x", "\n", "b">>)

\* move and copy Parts: paths in the other order, source equal to
\* destination, a path line missing
PartMoveYX == MkPart(PathY, VerbMove, <<"+", "+", "+", " ", "x", "\n", "-", "-", "-", " ", "d", "/", "y">>)
PartMoveXX == MkPart(PathX, VerbMove, <<"-", "-", "-", " ", "x", "\n", "+", "+", "+", " ", "x">>)
PartCopyXX == MkPart(PathX, VerbCopy, <<"-", "-", "-", " ", "x", "\n", "+", "+", "+", " ", "x">>)
PartMoveNoDest == MkPart(PathY, VerbMove, <<"-", "-", "-", " ", "x">>)
PartCopyNoSource == MkPart(PathY, VerbCopy, <<"+", "+", "+", " ", "d", "/", "y">>)

\* a delete Part whose body names another file than its location
PartDeleteY == MkPart(PathY, VerbDelete, <<"-", "-", "-", " ", "x">>)

\* Parts whose operation is no registered verb, and the empty operation
VerbPatch == <<"p", "a", "t", "c", "h">>
PartPatchY == MkPart(PathY, VerbPatch, <<"b">>)
PartNoVerbX == MkPart(PathX, <<>>, <<"a">>)

\* content Parts that fail: the second hunk does not match after the first
\* has applied, and a hunk header that does not lex
PartContentXPartial == MkPart(PathX, VerbContent, <<"@", "@", " ", "-", "1", ",", "1", " ", "+", "1", ",", "1", " ", "@", "@", "\n", "-", "a", "\n", "+", "c", "\n", "@", "@", " ", "-", "2", ",", "1", " ", "+", "2", ",", "1", " ", "@", "@", "\n", "-", "z", "\n", "+", "c">>)
PartContentXBadHeader == MkPart(PathX, VerbContent, <<"@", "@", " ", "-", "1", " ", "@", "@", "\n", "+", "c">>)

\* Parts whose paths are absolute, a URL, or lead out of the base directory
PathUp == <<".", ".", "/", "z">>
FullUp == <<"/", "z">>
PartCreateAbsX == MkPart(<<"/", "x">>, VerbCreate, <<"a">>)
PartCreateUrlX == MkPart(<<"h", "t", "t", "p", ":", "/", "/", "h", "/", "x">>, VerbCreate, <<"a">>)
PartCreateUp == MkPart(PathUp, VerbCreate, <<"c">>)
PartDeleteUp == MkPart(PathUp, VerbDelete, <<"-", "-", "-", " ", ".", ".", "/", "z">>)
PartMoveXUp == MkPart(PathY, VerbMove, <<"-", "-", "-", " ", "x", "\n", "+", "+", "+", " ", ".", ".", "/", "z">>)

\* the Parts of the deltagrams of full length
CommonParts ==
    {PartMessage, PartCreateX, PartCreateY, PartDeleteX, PartMoveXY, PartCopyXY,
     PartContentX1, PartContentX2}

\* the Parts of the shorter deltagrams only
EdgeParts ==
    {PartContentX3, PartContentX0, PartCreateXBlank, PartCreateXLate,
     PartMoveYX, PartMoveXX, PartCopyXX, PartMoveNoDest, PartCopyNoSource,
     PartDeleteY, PartPatchY, PartNoVerbX, PartContentXPartial, PartContentXBadHeader,
     PartCreateAbsX, PartCreateUrlX, PartCreateUp, PartDeleteUp, PartMoveXUp}

PartUniverse == CommonParts \cup EdgeParts

Deltagrams == SeqsUpTo(CommonParts, MaxParts) \cup SeqsUpTo(PartUniverse, MaxParts - 1)

\* the working directory when Apply is called
InitialFiles ==
    {fx @@ fy : fx \in {<<>>, FullX :> <<"a">>, FullX :> <<"a", "\n", "b">>},
                fy \in {<<>>, FullY :> <<"b">>}}

InitialDirs(f) == UNION {Ancestors(PathDir(q)) : q \in DOMAIN f} \cup Ancestors(BaseDir)

-----------------------------------------------------------------------------
(* One call of DefaultApplier.Apply, one Part of the loop per step *)

PatchIdle ==
    /\ original = <<>> /\ diff = <<>> /\ hunks = <<>> /\ result = <<>> /\ lineMapping = <<>>
    /\ hi = 0 /\ lastStart = -1 /\ ppc = "idle" /\ perr = Nil /\ out = <<>>

InitApply ==
    /\ files0 \in InitialFiles
    /\ dirs0 = InitialDirs(files0)
    /\ files = files0
    /\ dirs = dirs0
    /\ parts \in Deltagrams
    /\ pidx = 1
    /\ apc = "run"
    /\ aerr = Nil
    /\ applied = <<>>
    /\ PatchIdle
    /\ ParseIdle

\* the place of a Part in an order that groups the Parts by verb
VerbRank(part) ==
    IF IsMessage(part) THEN 0
    ELSE IF part.DeltaOperation = VerbDelete THEN 1
    ELSE IF part.DeltaOperation = VerbMove THEN 2
    ELSE IF part.DeltaOperation = VerbCopy THEN 3
    ELSE IF part.DeltaOperation = VerbContent THEN 5
    ELSE 4

\* a loop that regroups the Parts by verb before it runs them
PartAtByVerb(ps, k) ==
    LET R(n) == SelectSeq(ps, LAMBDA q : VerbRank(q) = n)
    IN  (R(0) \o R(1) \o R(2) \o R(3) \o R(4) \o R(5))[k]

\* the Part of loop iteration k (applier.go 37: range deltagram.Parts)
PartAt(ps, k) == ps[k]

\* handlers that work on the filesystem as it was when Apply was called
HandlerViewSnapshot == [files |-> files0, dirs |-> dirs0]

\* the filesystem the handlers work on (applier.go 58: a.fs)
HandlerView == [files |-> files, dirs |-> dirs]

\* a loop that goes on after a handler failed
AfterFailureContinue == "run"

\* what the loop does after a handler failed (applier.go 58-60: return)
AfterFailure == "done"

\* applier.go 39-42: a message Part is printed and skipped
SkipMessage ==
    /\ apc = "run"
    /\ pidx <= Len(parts)
    /\ IsMessage(PartAt(parts, pidx))
    /\ pidx' = pidx + 1
    /\ UNCHANGED <<files, dirs, files0, dirs0, parts, apc, aerr, applied>>
    /\ UNCHANGED <<patchVars, parseVars>>

\* applier.go 44-56: the handler registered for verb is the one selected for
\* the current Part
Selected(verb) ==
    /\ apc = "run"
    /\ pidx <= Len(parts)
    /\ ~IsMessage(PartAt(parts, pidx))
    /\ SelectHandler(PartAt(parts, pidx).DeltaOperation) = verb

\* applier.go 58-60: r is what handler.Apply(a.fs, baseDir, part) returned
Dispatch(verb, r) ==
    /\ files' = r.files
    /\ dirs' = r.dirs
    /\ applied' = Append(applied, [index |-> pidx, part |-> PartAt(parts, pidx), handler |-> verb])
    /\ IF r.err = Nil
       THEN UNCHANGED <<apc, aerr>>
       ELSE /\ aerr' = ApplyError(PartAt(parts, pidx), r.err)
            /\ apc' = AfterFailure
    /\ pidx' = pidx + 1
    /\ UNCHANGED <<files0, dirs0, parts>>
    /\ UNCHANGED <<patchVars, parseVars>>

ApplyCreate ==
    /\ Selected(VerbCreate)
    /\ Dispatch(VerbCreate,
                CreateApply(HandlerView.files, HandlerView.dirs, BaseDir, PartAt(parts, pidx)))

ApplyDelete ==
    /\ Selected(VerbDelete)
    /\ Dispatch(VerbDelete,
                DeleteApply(HandlerView.files, HandlerView.dirs, BaseDir, PartAt(parts, pidx)))

ApplyCopy ==
    /\ Selected(VerbCopy)
    /\ Dispatch(VerbCopy,
                CopyApply(HandlerView.files, HandlerView.dirs, BaseDir, PartAt(parts, pidx)))

ApplyMove ==
    /\ Selected(VerbMove)
    /\ Dispatch(VerbMove,
                MoveApply(HandlerView.files, HandlerView.dirs, BaseDir, PartAt(parts, pidx)))

ApplyContent ==
    /\ Selected(VerbContent)
    /\ Dispatch(VerbContent,
                ContentApply(HandlerView.files, HandlerView.dirs, BaseDir, PartAt(parts, pidx)))

\* applier.go 63: every Part is done
ApplyReturn ==
    /\ apc = "run"
    /\ pidx > Len(parts)
    /\ apc' = "done"
    /\ UNCHANGED <<files, dirs, files0, dirs0, parts, pidx, aerr, applied>>
    /\ UNCHANGED <<patchVars, parseVars>>

NextApply ==
    \/ SkipMessage
    \/ ApplyCreate
    \/ ApplyDelete
    \/ ApplyCopy
    \/ ApplyMove
    \/ ApplyContent
    \/ ApplyReturn

SpecApply == InitApply /\ [][NextApply]_vars

-----------------------------------------------------------------------------
(* Inputs of the parser: envelopes written from Parts *)

MaxEnvParts == 2

\* an envelope Part as written: its header lines, in order, and its body
EnvHeader(name, value) == [name |-> name, value |-> value]
EnvPart(headers, body) == [headers |-> headers, body |-> body]

WithLocation(loc) == EnvHeader(HeaderLocation, loc)
WithType == EnvHeader(HeaderType, TypeText)
WithOperation(op) == EnvHeader(HeaderOperation, op)

PathXDash == <<"x", "-", "-">>

EnvCreateX == EnvPart(<<WithLocation(PathX), WithType, WithOperation(VerbCreate)>>, <<"a">>)
EnvDeleteY == EnvPart(<<WithLocation(PathY), WithType, WithOperation(VerbDelete)>>, <<>>)
EnvMessage == EnvPart(<<WithLocation(MessageLocation), WithType>>, <<"m">>)
\* the location is the last header and the body is empty
EnvDeleteYLast == EnvPart(<<WithType, WithOperation(VerbDelete), WithLocation(PathY)>>, <<>>)
\* a location that ends with two dashes: followed by other lines, and last
EnvCreateDash == EnvPart(<<WithLocation(PathXDash), WithType, WithOperation(VerbCreate)>>, <<"a">>)
EnvCreateDashLast == EnvPart(<<WithType, WithLocation(PathXDash)>>, <<>>)
\* a body that ends with two dashes
EnvCreateBodyDash == EnvPart(<<WithLocation(PathX), WithType, WithOperation(VerbCreate)>>, <<"a", "\n", "-", "-">>)
\* a message Part with the legacy location, and a Delta-Operation header
\* with a blank value
LegacyMessageLocation == <<"m", "i", "m", "e", "o", "g", "r", "a", "m", ":", "/", "/", "m", "e", "s", "s", "a", "g", "e">>
EnvLegacyMessage == EnvPart(<<WithLocation(LegacyMessageLocation), WithType>>, <<"m">>)
EnvBlankOperation == EnvPart(<<WithLocation(PathX), WithType, WithOperation(<<>>)>>, <<"a">>)
\* a required header is missing
EnvNoLocation == EnvPart(<<WithType, WithOperation(VerbCreate)>>, <<"a">>)
EnvNoType == EnvPart(<<WithLocation(PathX)>>, <<"a">>)

CompleteEnvParts ==
    {EnvCreateX, EnvDeleteY, EnvMessage, EnvDeleteYLast, EnvCreateDash, EnvCreateDashLast,
     EnvCreateBodyDash, EnvLegacyMessage, EnvBlankOperation}

AllEnvParts == CompleteEnvParts \cup {EnvNoLocation, EnvNoType}

IdentEight == <<"a", "b", "c", "d", "e", "f", "g", "h">>
IdentMixed == <<"A", "_", "b", "-", "0", "1", "2", "3", "x">>
IdentAt == <<"t", "e", "s", "t", "@", "1", "2", "3", "#", "4", "5", "6">>
IdentSeven == <<"t", "e", "s", "t", "1", "2", "3">>
IdentShort == <<"a", "b", "c">>

\* "Name: value" for each header, a blank line, the body
RECURSIVE HeaderLines(_)
HeaderLines(hs) ==
    IF Len(hs) = 0 THEN <<>>
    ELSE <<hs[1].name \o <<" ">> \o hs[1].value>> \o HeaderLines(Tail(hs))

FormatSegment(p) == <<LF>> \o Join(HeaderLines(p.headers) \o <<<<>>, p.body>>, LF) \o <<LF>>

\* the envelope of the Parts ps from the k-th on; terminated says whether the
\* final boundary is written
RECURSIVE FormatFrom(_, _, _, _)
FormatFrom(id, ps, k, terminated) ==
    IF k > Len(ps)
    THEN IF terminated THEN BoundaryPattern(id) \o FinalMarker \o <<LF>> ELSE <<>>
    ELSE BoundaryPattern(id) \o FormatSegment(ps[k]) \o FormatFrom(id, ps, k + 1, terminated)

FormatEnvelope(id, ps) == FormatFrom(id, ps, 1, TRUE)

\* text after the final boundary: a word, and text with the shape of the
\* headers and body of a Part
TrailingWord == <<"j", "u", "n", "k", "\n">>
TrailingPart == <<"C", "o", "n", "t", "e", "n", "t", "-", "L", "o", "c", "a", "t", "i", "o", "n", ":", " ", "z", "\n", "C", "o", "n", "t", "e", "n", "t", "-", "T", "y", "p", "e", ":", " ", "t", "\n", "\n", "a", "\n">>
TrailingTexts == {TrailingWord, TrailingPart}

\* the lines joined by a separator of any length
RECURSIVE JoinWith(_, _)
JoinWith(lines, sep) ==
    IF Len(lines) = 0 THEN <<>>
    ELSE IF Len(lines) = 1 THEN lines[1]
    ELSE lines[1] \o sep \o JoinWith(Tail(lines), sep)

\* the same text with CRLF line endings
WithCRLF(s) == JoinWith(Split(s, LF), <<CR, LF>>)

-----------------------------------------------------------------------------
(* One call of DefaultParser.Parse, one segment of the loop per step *)

ParseCase(text, ps) == envelope = text /\ written = ps

InitParse ==
    /\ \/ \E id \in {IdentEight, IdentMixed} :
             \E ps \in SeqsUpTo(CompleteEnvParts, MaxEnvParts) \ {<<>>} :
                 \/ ParseCase(FormatEnvelope(id, ps), ps)
                 \/ ParseCase(WithCRLF(FormatEnvelope(id, ps)), ps)
       \/ \E ps \in SeqsUpTo(AllEnvParts, MaxEnvParts) \ {<<>>} :
             \/ ParseCase(FormatEnvelope(IdentShort, ps), ps)
             \/ ParseCase(FormatFrom(IdentEight, ps, 1, FALSE), ps)
             \/ ParseCase(FormatEnvelope(IdentEight, ps), ps)
             \/ ParseCase(FormatSegment(ps[1]), ps)
       \/ \E ps \in SeqsUpTo(CompleteEnvParts, MaxEnvParts) \ {<<>>} :
             \E id \in {IdentAt, IdentSeven} : ParseCase(FormatEnvelope(id, ps), ps)
       \/ \E ps \in SeqsUpTo(CompleteEnvParts, MaxEnvParts) \ {<<>>} :
             \E text \in TrailingTexts :
                 ParseCase(FormatEnvelope(IdentEight, ps) \o text, ps)
    /\ identifier = <<>>
    /\ segments = <<>>
    /\ si = 0
    /\ deltagram = <<>>
    /\ parsePc = "split"
    /\ parseErr = Nil
    /\ PatchIdle
    /\ ApplyIdle

\* parser.go 20-43, as far as the error returns: the error, Nil when there is none
SplitErrorOf(m, text) ==
    IF ~m.found THEN NoBoundary
    ELSE IF ~ValidIdentifier(m.identifier) THEN InvalidIdentifier(m.identifier)
    ELSE IF Len(SplitOn(text, BoundaryPattern(m.identifier))) < 2 THEN NoParts
    ELSE Nil

SplitError(text) == SplitErrorOf(FindBoundary(text), text)

\* parser.go 20-53: normalise, find the identifier, split, drop an empty
\* first part
ParseSplit ==
    /\ parsePc = "split"
    /\ SplitError(NormalizeLineEndings(envelope)) = Nil
    /\ identifier' = FindBoundary(NormalizeLineEndings(envelope)).identifier
    /\ segments' = DropEmptyFirst(SplitOn(NormalizeLineEndings(envelope),
                                          BoundaryPattern(identifier')))
    /\ si' = 1
    /\ parsePc' = "loop"
    /\ UNCHANGED <<envelope, written, deltagram, parseErr>>
    /\ UNCHANGED <<patchVars, applyVars>>

\* parser.go 26-28, 33-35, 41-43: Parse returns nil and an error
ParseSplitFail ==
    /\ parsePc = "split"
    /\ SplitError(NormalizeLineEndings(envelope)) # Nil
    /\ parseErr' = SplitError(NormalizeLineEndings(envelope))
    /\ parsePc' = "done"
    /\ UNCHANGED <<envelope, written, identifier, segments, si, deltagram>>
    /\ UNCHANGED <<patchVars, applyVars>>

\* a segment of the loop is at hand and is not the final boundary
AtSegment ==
    /\ parsePc = "loop"
    /\ si <= Len(segments)
    /\ ~IsFinalSegment(segments[si])

\* parser.go 65-70 with the outcome r of parsePart
PartParsed(r) ==
    /\ IF r.err = Nil
       THEN /\ deltagram' = Append(deltagram, r.part)
            /\ si' = si + 1
            /\ UNCHANGED <<parsePc, parseErr>>
       ELSE /\ parseErr' = PartError(si, r.err)
            /\ deltagram' = <<>>
            /\ parsePc' = "done"
            /\ UNCHANGED si
    /\ UNCHANGED <<envelope, written, identifier, segments>>
    /\ UNCHANGED <<patchVars, applyVars>>

\* parser.go 55-71: one segment becomes a Part, or Parse fails on it
ParsePart ==
    /\ AtSegment
    /\ PartParsed(parsePart(StripFinalMarker(segments[si])))

\* parser.go 57-62: the final boundary ends the loop
ParseBreak ==
    /\ parsePc = "loop"
    /\ si <= Len(segments)
    /\ IsFinalSegment(segments[si])
    /\ parsePc' = "done"
    /\ UNCHANGED <<envelope, written, identifier, segments, si, deltagram, parseErr>>
    /\ UNCHANGED <<patchVars, applyVars>>

\* parser.go 55, 73: the segments are exhausted
ParseReturn ==
    /\ parsePc = "loop"
    /\ si > Len(segments)
    /\ parsePc' = "done"
    /\ UNCHANGED <<envelope, written, identifier, segments, si, deltagram, parseErr>>
    /\ UNCHANGED <<patchVars, applyVars>>

NextParse == ParseSplit \/ ParseSplitFail \/ ParsePart \/ ParseBreak \/ ParseReturn

SpecParse == InitParse /\ [][NextParse]_vars

-----------------------------------------------------------------------------
(* Properties of the patch applier *)

OriginalLines == Split(original, LF)

PatchDone == ppc = "done"

InRange(h, lines) == h.Header.OldStart >= 1 /\ h.Header.OldStart <= Len(lines)

\* all context and deletion ops of h match the lines at position pos (0-based)
MatchesAt(h, lines, pos) == validateHunkAgainstOriginal(lines, h, pos) = Nil

\* h matches the original buffer where it says it does
MatchesOriginal(h, lines) == InRange(h, lines) /\ MatchesAt(h, lines, h.Header.OldStart - 1)

Restated(h, oldStart) == [h EXCEPT !.Header.OldStart = oldStart]

Abs(n) == IF n < 0 THEN -n ELSE n

IsInserted(line) == line = LineC

\* C5 (offset independence): when two hunks both match the original buffer
\* and the second starts after the range of the first, applying [h1, h2], both
\* stated in original line numbers, returns the buffer that applying h1 alone
\* and then h2, restated by the net line change of h1, to the intermediate
\* buffer returns.
C5_OffsetIndependence ==
    (/\ PatchDone
     /\ Len(hunks) = 2
     /\ MatchesOriginal(hunks[1], OriginalLines)
     /\ MatchesOriginal(hunks[2], OriginalLines)
     /\ hunks[2].Header.OldStart > hunks[1].Header.OldStart + hunks[1].Header.OldCount)
    => LET first  == ApplyHunks(original, <<hunks[1]>>)
           net    == Len(Split(first.out, LF)) - Len(OriginalLines)
           second == ApplyHunks(first.out,
                         <<Restated(hunks[2], hunks[2].Header.OldStart + net)>>)
       IN  /\ perr = Nil
           /\ first.err = Nil
           /\ second.err = Nil
           /\ out = second.out

\* a two-hunk diff whose first hunk changed the line count was applied
C5_Witness ==
    /\ PatchDone
    /\ perr = Nil
    /\ Len(hunks) = 2
    /\ MatchesOriginal(hunks[1], OriginalLines)
    /\ MatchesOriginal(hunks[2], OriginalLines)
    /\ hunks[2].Header.OldStart > hunks[1].Header.OldStart + hunks[1].Header.OldCount
    /\ Len(Split(ApplyHunks(original, <<hunks[1]>>).out, LF)) # Len(OriginalLines)
    /\ out # original

\* the lines of a buffer whose indices (1-based) are not in drop
RECURSIVE DropIndices(_, _, _)
DropIndices(lines, drop, i) ==
    IF i > Len(lines) THEN <<>>
    ELSE (IF i \in drop THEN <<>> ELSE <<lines[i]>>) \o DropIndices(lines, drop, i + 1)

\* the 1-based buffer indices that the deletion ops of h remove when h is
\* applied at position pos (0-based)
DeletedIndices(h, pos) ==
    LET ops == h.Operations
    IN  {pos + OldSideCount(SubSeq(ops, 1, k)) : k \in {j \in 1..Len(ops) : ops[j].Type = "-"}}

AllEndWithCR(lines) == \A i \in 1..Len(lines) : Len(lines[i]) > 0 /\ lines[i][Len(lines[i])] = CR

NoCRInOldSide(h) ==
    \A k \in 1..Len(h.Operations) :
        h.Operations[k].Type # "+" => StripCR(h.Operations[k].Content) = h.Operations[k].Content

\* C6 (line-ending tolerance): a hunk whose context and deletion payloads
\* carry no CR applies to a buffer whose lines end with CR, and every buffer
\* line that is not deleted keeps its bytes, trailing CR included: the result
\* without the inserted lines is the original without the deleted lines.
C6_LineEndingTolerance ==
    (/\ PatchDone
     /\ Len(hunks) = 1
     /\ AllEndWithCR(OriginalLines)
     /\ NoCRInOldSide(hunks[1])
     /\ OldSideCount(hunks[1].Operations) = hunks[1].Header.OldCount
     /\ MatchesOriginal(hunks[1], OriginalLines))
    => /\ perr = Nil
       /\ SelectSeq(result, LAMBDA l : ~IsInserted(l))
            = DropIndices(OriginalLines,
                          DeletedIndices(hunks[1], hunks[1].Header.OldStart - 1), 1)

\* the position, alone in the original buffer, where h matches
UniqueMatch(h, lines, m) ==
    /\ m \in 0..(Len(lines) - 1)
    /\ MatchesAt(h, lines, m)
    /\ \A q \in 0..(Len(lines) - 1) : MatchesAt(h, lines, q) => q = m

AppliedAt(h, lines, m) ==
    /\ perr = Nil
    /\ result = applyHunkAtPosition(lines, h, m).result
    /\ out = Join(result, LF)

\* C7 as stated (fuzzy relocation bound): a hunk stated at most 5 lines away
\* from the only position where it matches is applied at that position, for
\* every stated start, also one past the last line of the buffer.
C7_AnyStatedStart ==
    (/\ PatchDone
     /\ Len(hunks) = 1
     /\ hunks[1].Header.OldStart >= 1
     /\ OldSideCount(hunks[1].Operations) >= 1)
    => \A m \in 0..(Len(OriginalLines) - 1) :
          (/\ UniqueMatch(hunks[1], OriginalLines, m)
           /\ Abs(hunks[1].Header.OldStart - 1 - m) <= searchRange)
          => AppliedAt(hunks[1], OriginalLines, m)

\* C7 (amended): a hunk whose stated start is a line of the original buffer
\* and at most 5 lines away from the only position where it matches is applied
\* at that position; a stated start of 0 or past the last line fails with
\* HunkOutOfRange whatever the distance.
C7_FuzzyRelocationInRange ==
    (/\ PatchDone
     /\ Len(hunks) = 1)
    => /\ \A m \in 0..(Len(OriginalLines) - 1) :
             (/\ UniqueMatch(hunks[1], OriginalLines, m)
              /\ InRange(hunks[1], OriginalLines)
              /\ Abs(hunks[1].Header.OldStart - 1 - m) <= searchRange)
             => AppliedAt(hunks[1], OriginalLines, m)
       /\ ~InRange(hunks[1], OriginalLines) => perr.kind = "HunkOutOfRange"

\* a hunk stated 5 lines away from its only match was applied and changed the buffer
C7_Witness ==
    /\ PatchDone
    /\ perr = Nil
    /\ Len(hunks) = 1
    /\ \E m \in 0..(Len(OriginalLines) - 1) :
          /\ UniqueMatch(hunks[1], OriginalLines, m)
          /\ Abs(hunks[1].Header.OldStart - 1 - m) = searchRange
    /\ out # original

\* C8 (pure-insertion additivity): a step that applies a hunk with
\* old_count = 0 at position p consumes no line: the buffer grows by the
\* number k of insertion ops, lines p .. p+k-1 are the insertion payloads in
\* hunk order, and the lines before and after are the old ones in order.
C8_PureInsertionAdditivity ==
    [][(/\ ppc = "loop"
        /\ hi <= Len(hunks)
        /\ hi' = hi + 1
        /\ hunks[hi].Header.OldCount = 0)
       => LET p   == lastStart'
              ins == InsertLines(hunks[hi].Operations)
              k   == Len(ins)
          IN  /\ p >= 0 /\ p <= Len(result)
              /\ Len(result') = Len(result) + k
              /\ SubSeq(result', p + 1, p + k) = ins
              /\ SubSeq(result', 1, p) = SubSeq(result, 1, p)
              /\ SubSeq(result', p + k + 1, Len(result')) = SubSeq(result, p + 1, Len(result))
      ]_vars

\* a pure insertion of two lines was applied after the first line of the buffer
C8_Witness ==
    /\ PatchDone
    /\ perr = Nil
    /\ Len(hunks) = 1
    /\ hunks[1].Header.OldCount = 0
    /\ Len(InsertLines(hunks[1].Operations)) = 2
    /\ lastStart > 0
    /\ Len(result) = Len(OriginalLines) + 2

ContextOnly(h) == \A k \in 1..Len(h.Operations) : h.Operations[k].Type = " "

\* a hunk of a diff of the buffer against itself: context ops that are the
\* lines at its stated start, old_count the number of them
IdentityHunk(h, lines) ==
    /\ ContextOnly(h)
    /\ Len(h.Operations) >= 1
    /\ h.Header.OldCount = Len(h.Operations)
    /\ h.Header.OldStart >= 1
    /\ h.Header.OldStart - 1 + Len(h.Operations) <= Len(lines)
    /\ \A k \in 1..Len(h.Operations) :
          h.Operations[k].Content = lines[h.Header.OldStart - 1 + k]

\* C9 (patch identity): a patch of a buffer against itself, that is no hunk
\* at all or hunks of context ops equal to the lines they state, returns the
\* buffer byte for byte.
C9_PatchIdentity ==
    (/\ PatchDone
     /\ \A k \in 1..Len(hunks) : IdentityHunk(hunks[k], OriginalLines)
     /\ diff = FormatDiff(hunks))
    => /\ perr = Nil
       /\ out = original

\* an identity patch of two context lines, one with a CR, was applied
C9_Witness ==
    /\ PatchDone
    /\ perr = Nil
    /\ Len(hunks) = 1
    /\ IdentityHunk(hunks[1], OriginalLines)
    /\ Len(hunks[1].Operations) = 2
    /\ \E k \in 1..2 : hunks[1].Operations[k].Content = LineACR
    /\ out = original

\* C10 as stated: a hunk whose old_count exceeds the lines left from the
\* position chosen for it fails with TruncatedContext, whatever its ops.
C10_TruncatedContext ==
    (/\ PatchDone
     /\ Len(hunks) = 1
     /\ InRange(hunks[1], OriginalLines))
    => LET chosen == findBestHunkPosition(OriginalLines, hunks[1], hunks[1].Header.OldStart - 1)
       IN  (chosen.err = Nil /\ hunks[1].Header.OldCount > Len(OriginalLines) - chosen.pos)
           => perr.kind = "TruncatedContext"

\* the positions of the buffer at most searchRange lines from the stated one
\* where the hunk validates
NearMatches(h, lines, s) ==
    {p \in 0..(Len(lines) - 1) : Abs(p - s) <= searchRange /\ MatchesAt(h, lines, p)}

\* the nearest of them, the earlier one of two at the same distance
Nearest(cands, s) ==
    CHOOSE p \in cands :
        \A q \in cands : \/ Abs(p - s) < Abs(q - s)
                         \/ (Abs(p - s) = Abs(q - s) /\ p <= q)

\* what findBestHunkPosition returned for a hunk of the diff
ChosenFor(h) == findBestHunkPosition(OriginalLines, h, h.Header.OldStart - 1)

PositionAsStated(h, lines, s, chosen) ==
    IF MatchesAt(h, lines, s)
    THEN chosen.err = Nil /\ chosen.pos = s
    ELSE IF NearMatches(h, lines, s) # {}
    THEN chosen.err = Nil /\ chosen.pos = Nearest(NearMatches(h, lines, s), s)
    ELSE chosen.err # Nil /\ chosen.err = validateHunkAgainstOriginal(lines, h, s)

\* C29 (position search): for every hunk of the diff stated at a line of the
\* original buffer, findBestHunkPosition returns the stated position when the
\* hunk validates there; otherwise the validating position of the buffer at
\* most 5 lines away with the smallest distance, the earlier one on a tie;
\* and when there is none it fails with the diagnostic of the stated
\* position, so a hunk matching only 6 or more lines away is rejected and
\* the call fails with that diagnostic.
C29_BestHunkPosition ==
    (ppc = "loop" \/ (ppc = "done" /\ perr.kind # "InvalidHunkHeader"))
    => \A k \in 1..Len(hunks) :
          InRange(hunks[k], OriginalLines)
          => /\ PositionAsStated(hunks[k], OriginalLines, hunks[k].Header.OldStart - 1,
                                 ChosenFor(hunks[k]))
             /\ (PatchDone /\ k = 1 /\ ChosenFor(hunks[k]).err # Nil)
                => perr = ChosenFor(hunks[k]).err

\* a hunk that validates one line before and one line after the stated
\* position, and not at it, was applied at the earlier one
C29_Witness ==
    /\ PatchDone
    /\ perr = Nil
    /\ Len(hunks) = 1
    /\ hunks[1].Header.OldStart >= 2
    /\ hunks[1].Header.OldStart < Len(OriginalLines)
    /\ ~MatchesOriginal(hunks[1], OriginalLines)
    /\ MatchesAt(hunks[1], OriginalLines, hunks[1].Header.OldStart - 2)
    /\ MatchesAt(hunks[1], OriginalLines, hunks[1].Header.OldStart)
    /\ result = applyHunkAtPosition(OriginalLines, hunks[1], hunks[1].Header.OldStart - 2).result
    /\ result # applyHunkAtPosition(OriginalLines, hunks[1], hunks[1].Header.OldStart).result

\* a hunk that validates only 6 lines from the stated position was rejected
C29_WitnessTooFar ==
    /\ PatchDone
    /\ perr # Nil
    /\ Len(hunks) = 1
    /\ InRange(hunks[1], OriginalLines)
    /\ \E m \in 0..(Len(OriginalLines) - 1) :
          /\ UniqueMatch(hunks[1], OriginalLines, m)
          /\ Abs(hunks[1].Header.OldStart - 1 - m) = searchRange + 1

\* C25: every hunk that validates against the original is applied at a
\* position currentStart with 0 <= currentStart <= len(result): the call
\* never ends in a slice bound outside the buffer.
C25_BufferIndexSafety == perr.kind # "panic"

\* the payloads of the context and insertion ops, in op order
RECURSIVE NewSideLines(_)
NewSideLines(ops) ==
    IF Len(ops) = 0 THEN <<>>
    ELSE (IF ops[1].Type # "-" THEN <<ops[1].Content>> ELSE <<>>) \o NewSideLines(Tail(ops))

\* run is a contiguous run of buf
HasRun(buf, run) ==
    \E p \in 0..(Len(buf) - Len(run)) : SubSeq(buf, p + 1, p + Len(run)) = run

\* C27: after a hunk that validates is applied, the payloads of its context
\* and insertion ops, in op order, are one contiguous run of the result
\* buffer, for a hunk with old_count 0 as for a replacement.
C27_NewSideContiguous ==
    [][(/\ ppc = "loop"
        /\ hi <= Len(hunks)
        /\ hi' = hi + 1)
       => HasRun(result', NewSideLines(hunks[hi].Operations))
      ]_vars

\* the original range [old_start, old_start + old_count) of a hunk
OldRange(h) == h.Header.OldStart..(h.Header.OldStart + h.Header.OldCount - 1)

\* two hunks that both match the original, with disjoint original ranges
\* that start at different lines, were applied
DisjointPair ==
    /\ PatchDone
    /\ Len(hunks) = 2
    /\ MatchesOriginal(hunks[1], OriginalLines)
    /\ MatchesOriginal(hunks[2], OriginalLines)
    /\ OldRange(hunks[1]) \cap OldRange(hunks[2]) = {}
    /\ hunks[1].Header.OldStart # hunks[2].Header.OldStart

\* the call has the outcome r of ApplyHunks
SameOutcome(r) == (perr = Nil) = (r.err = Nil) /\ out = r.out

StartsOutsideEachOther ==
    /\ hunks[1].Header.OldStart \notin OldRange(hunks[2])
    /\ hunks[2].Header.OldStart \notin OldRange(hunks[1])

-----------------------------------------------------------------------------
(* Properties of the dispatcher *)

ApplyDone == apc = "done"

\* the handler calls of the first n Parts when each non-message Part gets one
\* call, in stream order
RECURSIVE CallsInStreamOrder(_, _)
CallsInStreamOrder(ps, n) ==
    IF n = 0 THEN <<>>
    ELSE IF IsMessage(ps[n]) THEN CallsInStreamOrder(ps, n - 1)
    ELSE Append(CallsInStreamOrder(ps, n - 1), [index |-> n, part |-> ps[n]])

CallsMade == [k \in 1..Len(applied) |-> [index |-> applied[k].index, part |-> applied[k].part]]

\* a content Part on a file followed by a delete Part of the same file
ContentThenDelete(ps, k) ==
    /\ k + 1 <= Len(ps)
    /\ ps[k].DeltaOperation = VerbContent
    /\ ps[k + 1].DeltaOperation = VerbDelete
    /\ ps[k].ContentLocation = ps[k + 1].ContentLocation
    /\ ~IsMessage(ps[k])

\* what [content X, delete X] does to X: the patch is tried on the bytes X
\* had, and X is gone when it applied
PatchedThenRemoved(f0, f, e, X, pr) ==
    IF X \in DOMAIN f0 /\ pr.err = Nil
    THEN e = Nil /\ X \notin DOMAIN f
    ELSE e # Nil /\ e.op = VerbContent /\ (X \in DOMAIN f0 => X \in DOMAIN f /\ f[X] = f0[X])

EarlierEffectsInPlace(before, f, d) ==
    /\ before.err = Nil
    /\ f = before.files
    /\ before.dirs \subseteq d

C3_Atomic ==
    (ApplyDone /\ aerr # Nil) => (files = files0 /\ dirs = dirs0)

\* a create Part of a file followed by a content Part on the same file
CreateThenContent(ps) ==
    /\ Len(ps) = 2
    /\ ps[1].DeltaOperation = VerbCreate
    /\ ps[2].DeltaOperation = VerbContent
    /\ ps[1].ContentLocation = ps[2].ContentLocation
    /\ ~IsMessage(ps[1])

\* a content Part on a file followed by a copy Part of that file elsewhere
ContentThenCopy(ps) ==
    /\ Len(ps) = 2
    /\ ps[1].DeltaOperation = VerbContent
    /\ ps[2].DeltaOperation = VerbCopy
    /\ ~IsMessage(ps[1]) /\ ~IsMessage(ps[2])
    /\ BodyPaths(ps[2].Content).sourcePath = ps[1].ContentLocation
    /\ BodyPaths(ps[2].Content).destPath # <<>>
    /\ BodyPaths(ps[2].Content).destPath # ps[1].ContentLocation

\* X holds the patch applied to B, or B when the patch does not apply
HoldsPatched(f, e, X, B, pr) ==
    /\ X \in DOMAIN f
    /\ IF pr.err = Nil THEN e = Nil /\ f[X] = pr.out
       ELSE e # Nil /\ e.op = VerbContent /\ f[X] = B

\* S and D both hold the patch applied to what S held
CopiedPatched(f, S, D, pr) ==
    /\ pr.err = Nil
    /\ S \in DOMAIN f /\ f[S] = pr.out
    /\ D \in DOMAIN f /\ f[D] = pr.out

TargetOf(part) == ResolveFilePath(BaseDir, part.ContentLocation)

\* the body lexes to hunks and the first one states a start that is no line
\* of the buffer
StartsOutOfRange(buffer, parsed) ==
    /\ parsed.err = Nil
    /\ Len(parsed.hunks) >= 1
    /\ ~InRange(parsed.hunks[1], Split(buffer, LF))

\* the error of a hunk stated at line oldStart of a buffer
OutOfRangeError(buffer, parsed) ==
    [kind |-> "HunkOutOfRange", line |-> parsed.hunks[1].Header.OldStart,
     lines |-> Len(Split(buffer, LF))]

\* C11: a content Part whose first hunk states old_start = 0 or a line past
\* the end of the file fails with HunkOutOfRange reporting old_start and the
\* number of lines of the file, also when its context matches within 5 lines,
\* and the step writes no file.
C11_HunkOutOfRange ==
    [][(/\ Selected(VerbContent)
        /\ TargetOf(PartAt(parts, pidx)) \in DOMAIN files
        /\ StartsOutOfRange(files[TargetOf(PartAt(parts, pidx))],
                            ParseAllHunks(Split(PartAt(parts, pidx).Content, LF))))
       => /\ aerr' # Nil
          /\ aerr'.cause.kind = "HandlerError"
          /\ aerr'.cause.cause =
                 OutOfRangeError(files[TargetOf(PartAt(parts, pidx))],
                                 ParseAllHunks(Split(PartAt(parts, pidx).Content, LF)))
          /\ files' = files
          /\ dirs' = dirs
      ]_vars

\* a hunk stated at line 3 of "a\nb", whose context is line 2, was refused
C11_Witness ==
    /\ ApplyDone
    /\ aerr # Nil
    /\ aerr.cause.kind = "HandlerError"
    /\ aerr.cause.cause.kind = "HunkOutOfRange"
    /\ aerr.cause.cause.line = 3
    /\ aerr.cause.cause.lines = 2
    /\ parts = <<PartContentX3>>
    /\ files = files0

\* the lexer returned hunks
Lexed == ppc = "loop" \/ (ppc = "done" /\ perr.kind # "InvalidHunkHeader")

\* the ops of h are as many as its header counts say
CountsAgree(h) ==
    /\ h.Header.OldCount # 0 => OldSideCount(h.Operations) = h.Header.OldCount
    /\ h.Header.NewCount # 0 => NewSideCount(h.Operations) = h.Header.NewCount

C13_FileMissing ==
    [][(/\ Selected(VerbContent)
        /\ ~Exists(files, dirs, TargetOf(PartAt(parts, pidx))))
       => /\ aerr' # Nil
          /\ aerr'.op = VerbContent
          /\ aerr'.cause = FileMissing(PartAt(parts, pidx).ContentLocation)
          /\ aerr'.cause.use = VerbCreate
          /\ files' = files
          /\ dirs' = dirs
      ]_vars

\* a content Part failed on the file that the Part before it had removed
C13_Witness ==
    /\ ApplyDone
    /\ aerr # Nil
    /\ aerr.cause.kind = "FileMissing"
    /\ aerr.cause.use = VerbCreate
    /\ Len(parts) = 2
    /\ parts[1].DeltaOperation = VerbDelete
    /\ TargetOf(parts[2]) \in DOMAIN files0
    /\ TargetOf(parts[2]) \notin DOMAIN files

\* the index of the first LF of s, 0 when there is none
FirstLF(s) ==
    IF \E i \in 1..Len(s) : s[i] = LF
    THEN CHOOSE i \in 1..Len(s) : s[i] = LF /\ \A j \in 1..(i - 1) : s[j] # LF
    ELSE 0

\* the body without its first line when that line is a "+++ <path>" marker,
\* byte for byte
BodyAfterMarker(body) ==
    IF HasPrefix(body, MarkerPlus \o <<" ">>)
    THEN IF FirstLF(body) = 0 THEN <<>> ELSE SubSeq(body, FirstLF(body) + 1, Len(body))
    ELSE body

\* C14: a create step that succeeds writes to the resolved path exactly the
\* Part body without its first line when that line is a "+++ <path>" marker,
\* all other bytes verbatim; the parent directories exist afterwards, a file
\* that was there is overwritten and no other file changes.
C14_CreateVerbatim ==
    [][(/\ Selected(VerbCreate)
        /\ aerr' = Nil)
       => /\ files' = (TargetOf(PartAt(parts, pidx)) :> BodyAfterMarker(PartAt(parts, pidx).Content))
                      @@ files
          /\ PathDir(TargetOf(PartAt(parts, pidx))) \in dirs'
      ]_vars

\* the resolved source and destination a move or copy Part names in its body
SourceOf(part) == ResolveFilePath(BaseDir, BodyPaths(part.Content).sourcePath)
DestOf(part) == ResolveFilePath(BaseDir, BodyPaths(part.Content).destPath)

\* every file other than p and q is the same before and after the step
OthersUnchanged(p, q) ==
    \A r \in (DOMAIN files \cup DOMAIN files') \ {p, q} :
        /\ r \in DOMAIN files
        /\ r \in DOMAIN files'
        /\ files'[r] = files[r]

\* the effect of a move from src to dst on the files
Moved(src, dst) ==
    /\ src \notin DOMAIN files'
    /\ dst \in DOMAIN files'
    /\ files'[dst] = files[src]
    /\ OthersUnchanged(src, dst)

\* C15 as stated: after a successful move Part whose body names src and dst, in
\* either order, src no longer exists, dst holds the bytes src held, every
\* other file is unchanged; the paths are those of the body.
C15_MoveEffect ==
    [][(/\ Selected(VerbMove)
        /\ aerr' = Nil)
       => Moved(SourceOf(PartAt(parts, pidx)), DestOf(PartAt(parts, pidx)))
      ]_vars

\* C15, amended: the same when dst resolves to another path than src; a
\* successful move of a file onto itself leaves every file as it was.
C15_MoveEffectDistinct ==
    [][(/\ Selected(VerbMove)
        /\ aerr' = Nil)
       => /\ SourceOf(PartAt(parts, pidx)) \in DOMAIN files
          /\ IF SourceOf(PartAt(parts, pidx)) # DestOf(PartAt(parts, pidx))
             THEN Moved(SourceOf(PartAt(parts, pidx)), DestOf(PartAt(parts, pidx)))
             ELSE files' = files
      ]_vars

\* a move whose body gives the destination first and whose Content-Location
\* is the source has just moved d/y to x
C15_Witness ==
    /\ aerr = Nil
    /\ Len(applied) = 2
    /\ applied[1].part = PartCreateY
    /\ applied[2].part = PartMoveYX
    /\ FullY \notin DOMAIN files
    /\ FullX \in DOMAIN files
    /\ files[FullX] = <<"b">>

\* the effect of a copy from src to dst on the files
Copied(src, dst) ==
    /\ src \in DOMAIN files'
    /\ files'[src] = files[src]
    /\ dst \in DOMAIN files'
    /\ files'[dst] = files[src]
    /\ OthersUnchanged(src, dst)

\* C16: after a successful copy Part with source src and destination dst, src
\* still exists with the bytes it had, dst holds those bytes, and every other
\* file is unchanged.
C16_CopyEffect ==
    [][(/\ Selected(VerbCopy)
        /\ aerr' = Nil)
       => Copied(SourceOf(PartAt(parts, pidx)), DestOf(PartAt(parts, pidx)))
      ]_vars

\* the handler error e reports a body without source or destination line
IsMissingPath(e) == e.kind = "MissingPath"

\* the handler error e reports a source file that does not exist
IsSourceMissing(e) ==
    /\ e.kind = "HandlerError"
    /\ e.cause = NotExist

\* C17: a move or copy Part that fails because its body lacks the source or
\* the destination line, or because the source file does not exist, returns an
\* error and leaves the filesystem unchanged: no file and no directory is
\* created, removed or modified.
C17_FailedMoveCopyFrame ==
    [][(/\ Selected(VerbMove) \/ Selected(VerbCopy)
        /\ aerr' # Nil
        /\ IsMissingPath(aerr'.cause) \/ IsSourceMissing(aerr'.cause))
       => /\ files' = files
          /\ dirs' = dirs
      ]_vars

\* the files without the one at path
Without(f, path) == [q \in DOMAIN f \ {path} |-> f[q]]

\* C18: a delete step removes exactly the file its Part's Content-Location
\* names, whatever the body says, and leaves every other file and every
\* directory as it was; when no such file exists the step succeeds, changes
\* nothing, and the dispatcher goes on with the next Part.
C18_DeleteEffect ==
    [][Selected(VerbDelete)
       => /\ aerr' = Nil
          /\ files' = Without(files, TargetOf(PartAt(parts, pidx)))
          /\ dirs' = dirs
          /\ apc' = "run"
          /\ pidx' = pidx + 1
      ]_vars

\* a delete Part whose body names x has removed d/y and kept x; the same Part
\* again found no file, and the call went on
C18_Witness ==
    /\ aerr = Nil
    /\ Len(applied) = 2
    /\ applied[1].part = PartDeleteY
    /\ applied[2].part = PartDeleteY
    /\ FullY \in DOMAIN files0
    /\ FullX \in DOMAIN files0
    /\ files = Without(files0, FullY)

\* the five verbs a handler is registered for
RegisteredVerbs == {Handlers[k] : k \in 1..Len(Handlers)}

\* the verb C19 expects for a delta_operation
ExpectedVerb(operation) ==
    IF operation \in RegisteredVerbs THEN operation ELSE VerbCreate

\* part, with create as its delta_operation
AsCreate(part) == [part EXCEPT !.DeltaOperation = VerbCreate]

\* the step has the outcome r of a handler: its files, its directories, and
\* an error exactly when r has one
HasOutcome(r) ==
    /\ files' = r.files
    /\ dirs' = r.dirs
    /\ (aerr' = Nil) <=> (r.err = Nil)

\* C19: every step that handles a Part that is no message records the handler
\* whose verb is the Part's delta_operation; when the delta_operation is none
\* of the five verbs the step records the create handler and has the outcome
\* the same Part would have with delta_operation create.
C19_HandlerSelection ==
    [][(/\ apc = "run"
        /\ pidx <= Len(parts)
        /\ ~IsMessage(PartAt(parts, pidx)))
       => /\ Len(applied') = Len(applied) + 1
          /\ applied'[Len(applied')].handler = ExpectedVerb(PartAt(parts, pidx).DeltaOperation)
          /\ PartAt(parts, pidx).DeltaOperation \notin RegisteredVerbs
             => HasOutcome(CreateApply(files, dirs, BaseDir, AsCreate(PartAt(parts, pidx))))
      ]_vars

\* a Part with delta_operation "patch" went to the create handler, which wrote
\* its body to its location
C19_Witness ==
    /\ aerr = Nil
    /\ Len(applied) = 1
    /\ applied[1].part = PartPatchY
    /\ applied[1].handler = VerbCreate
    /\ FullY \notin DOMAIN files0
    /\ FullY \in DOMAIN files
    /\ files[FullY] = <<"b">>

-----------------------------------------------------------------------------
(* Properties of the parser *)

ParseDone == parsePc = "done"

\* the number of positions of s where sep occurs
Occurrences(s, sep) == Cardinality({i \in 1..Len(s) : HasPrefixAt(s, i, sep)})

HasHeader(p, name) == \E k \in 1..Len(p.headers) : p.headers[k].name = name

\* the value of the header of that name, as written
WrittenValue(p, name) ==
    p.headers[CHOOSE k \in 1..Len(p.headers) : p.headers[k].name = name].value

\* the envelope is the Parts of written, each with a Content-Location and a
\* Content-Type header, a blank line and its body, between boundaries of one
\* valid identifier and closed by the final boundary
ValidEnvelope ==
    /\ Len(written) >= 1
    /\ \A k \in 1..Len(written) :
           HasHeader(written[k], HeaderLocation) /\ HasHeader(written[k], HeaderType)
    /\ \E id \in {IdentEight, IdentMixed} :
           \/ envelope = FormatEnvelope(id, written)
           \/ envelope = WithCRLF(FormatEnvelope(id, written))

\* C20: for a valid envelope Parse succeeds with as many Parts as the boundary
\* occurs in the envelope, minus one for the final boundary, in the order they
\* were written, each with the Content-Location value as written.
C20_ParserRoundTrip ==
    (ParseDone /\ ValidEnvelope)
    => /\ parseErr = Nil
       /\ Len(deltagram) = Occurrences(envelope, BoundaryPattern(identifier)) - 1
       /\ Len(deltagram) = Len(written)
       /\ \A k \in 1..Len(deltagram) :
              deltagram[k].ContentLocation = WrittenValue(written[k], HeaderLocation)

\* C21: every Part that Parse returns for a valid envelope has as its body
\* the text written between the blank line after its headers and the next
\* boundary, outer whitespace trimmed: empty when nothing follows the headers,
\* and with a trailing "--" kept.
C21_BodyExact ==
    (ParseDone /\ ValidEnvelope /\ parseErr = Nil)
    => \A k \in 1..Len(deltagram) :
           k <= Len(written) => deltagram[k].Content = TrimSpace(written[k].body)

\* the envelope is a valid envelope followed by non-blank text
HasTrailingText ==
    \E text \in TrailingTexts : envelope = FormatEnvelope(IdentEight, written) \o text

\* C22: when non-blank text follows the final boundary, Parse fails and
\* returns no Deltagram, whatever the text is.
C22_TrailingGarbage ==
    (ParseDone /\ HasTrailingText)
    => /\ parseErr # Nil
       /\ deltagram = <<>>

\* the identifiers envelopes are written with
WrittenIdents == {IdentEight, IdentMixed, IdentShort, IdentSeven, IdentAt}

\* the envelope is the Parts of written, all with the required headers,
\* between boundaries of the identifier id and closed by the final boundary
WrittenWith(id) ==
    /\ Len(written) >= 1
    /\ \A k \in 1..Len(written) :
           HasHeader(written[k], HeaderLocation) /\ HasHeader(written[k], HeaderType)
    /\ \/ envelope = FormatEnvelope(id, written)
       \/ envelope = WithCRLF(FormatEnvelope(id, written))

\* at least 8 characters, all from [A-Za-z0-9_-]
LongEnough(id) == Len(id) >= 8
InClass(id) == \A k \in 1..Len(id) : id[k] \in IdentChars

WrittenOperation(p) ==
    IF HasHeader(p, HeaderOperation) THEN WrittenValue(p, HeaderOperation) ELSE <<>>

\* C24: of the Parts Parse returns for a valid envelope, a Part whose
\* location is deltagram://message or mimeogram://message keeps the
\* delta_operation it was written with, empty when the header is absent;
\* every other Part has a non-empty delta_operation, create when the header
\* is absent or blank.
C24_OperationDefault ==
    ValidEnvelope
    => \A k \in 1..Len(deltagram) :
           IF IsMessage(deltagram[k])
           THEN deltagram[k].DeltaOperation = WrittenOperation(written[k])
           ELSE /\ deltagram[k].DeltaOperation # <<>>
                /\ deltagram[k].DeltaOperation =
                       IF WrittenOperation(written[k]) = <<>>
                       THEN VerbCreate
                       ELSE WrittenOperation(written[k])

-----------------------------------------------------------------------------
(* Properties of the content handler within the dispatcher *)

\* C26: a content step that fails, in the lexer or in any hunk, leaves every
\* file with the bytes it had and creates nothing; a content step that
\* succeeds changes the target file only.
C26_ContentAllOrNothing ==
    [][Selected(VerbContent)
       => IF aerr' # Nil
          THEN files' = files /\ dirs' = dirs
          ELSE OthersUnchanged(TargetOf(PartAt(parts, pidx)), TargetOf(PartAt(parts, pidx)))
      ]_vars

\* the second hunk of a content Part failed after the first had applied to
\* "a\nb" in memory, and x holds what it held
C26_Witness ==
    /\ ApplyDone
    /\ parts = <<PartContentXPartial>>
    /\ aerr # Nil
    /\ aerr.cause.kind = "HandlerError"
    /\ aerr.cause.cause.kind = "ContextMismatch"
    /\ FullX \in DOMAIN files0
    /\ Len(Split(files0[FullX], LF)) = 2
    /\ files = files0

-----------------------------------------------------------------------------
(* Properties of path resolution within the dispatcher *)

\* path is the base directory or lies below it
InsideBase(path) == path = BaseDir \/ HasPrefix(path, BaseDir \o <<"/">>)

\* the paths the handler of a call resolved and handed to the filesystem
HandedPaths(call) ==
    IF call.handler \in {VerbMove, VerbCopy}
    THEN IF BodyPaths(call.part.Content).sourcePath = <<>>
            \/ BodyPaths(call.part.Content).destPath = <<>>
         THEN {}
         ELSE {SourceOf(call.part), DestOf(call.part)}
    ELSE {TargetOf(call.part)}

\* C30 (path confinement): every path a handler resolved from a
\* Content-Location or from a move/copy source or destination lies inside
\* the base directory, and so does every file of the filesystem after the
\* calls made so far.
C30_PathConfinement ==
    /\ \A k \in 1..Len(applied) : \A q \in HandedPaths(applied[k]) : InsideBase(q)
    /\ \A q \in DOMAIN files : InsideBase(q)

\* absolute and URL locations are resolved inside the base directory
C30_AbsoluteAndUrlInside ==
    \A k \in 1..Len(applied) :
        applied[k].part \in {PartCreateAbsX, PartCreateUrlX}
        => TargetOf(applied[k].part) = FullX

=============================================================================
